---------------------------- MODULE Spec2Model ----------------------------
(***************************************************************************)
(* Model of the parkrun / theme park map viewer: the Index page (two       *)
(* visibility flags, two counters), the InteractiveMap component (two      *)
(* datasets, two Leaflet layer groups, two ingestions) and the helpers the *)
(* ingestions use (parseFloat, the WKT point parser, the record filters).  *)
(*                                                                         *)
(* The repository holds two versions of InteractiveMap: one loads the      *)
(* theme parks from a literal WKT list, the other fetches a CSV file.      *)
(* The variable "variant" says which of the two is running.                *)
(*                                                                         *)
(* JavaScript strings that the code parses are sequences of one-character  *)
(* strings; strings that are only copied and tested for emptiness (names,  *)
(* countries) are TLA+ strings.  A JavaScript number is a record           *)
(* [k, neg, int, frac]: k is "NaN", "Infinity" or "finite", and a finite   *)
(* number is (-1)^neg * (int + 0.frac) with frac a sequence of decimal     *)
(* digits without trailing zeros.                                          *)
(***************************************************************************)
EXTENDS Integers, Sequences, FiniteSets, TLC

-----------------------------------------------------------------------------
(* JavaScript values *)

Digits == {"0", "1", "2", "3", "4", "5", "6", "7", "8", "9"}

DigitVal(c) ==
  CASE c = "0" -> 0 [] c = "1" -> 1 [] c = "2" -> 2 [] c = "3" -> 3
    [] c = "4" -> 4 [] c = "5" -> 5 [] c = "6" -> 6 [] c = "7" -> 7
    [] c = "8" -> 8 [] c = "9" -> 9

NaN == [k |-> "NaN", neg |-> FALSE, int |-> 0, frac |-> <<>>]

Infinity(neg) == [k |-> "Infinity", neg |-> neg, int |-> 0, frac |-> <<>>]

Finite(neg, int, frac) == [k |-> "finite", neg |-> neg, int |-> int, frac |-> frac]

isNaN(n) == n.k = "NaN"

\* a value that is undefined or a string (a name, a country: never parsed)
UndefinedName == [t |-> "undefined", s |-> ""]

Str(s) == [t |-> "string", s |-> s]

\* a value that is undefined or a string of characters (a coordinate text)
UndefinedText == [t |-> "undefined", s |-> <<>>]

Text(chars) == [t |-> "string", s |-> chars]

\* ToBoolean of an undefined-or-string value: only a non-empty string is truthy
Truthy(v) == v.t = "string" /\ v.s # ""

TruthyText(v) == v.t = "string" /\ v.s # <<>>

\* a || b
Or(a, b) == IF Truthy(a) THEN a ELSE b

OrText(a, b) == IF TruthyText(a) THEN a ELSE b

\* ToString of an undefined-or-string value of characters
JsToString(v) ==
  IF v.t = "undefined" THEN <<"u", "n", "d", "e", "f", "i", "n", "e", "d">> ELSE v.s

-----------------------------------------------------------------------------
(* parseFloat: skip leading white space, then read the longest prefix that  *)
(* is a decimal literal: sign, then "Infinity" or digits with an optional   *)
(* fraction.  No prefix: NaN.  What follows the prefix is ignored.          *)
(* (Exponents are not modelled: no input of the model holds "e" or "E"      *)
(* after a digit.)                                                          *)

Drop(s, n) == SubSeq(s, n + 1, Len(s))

RECURSIVE SkipSpaces(_)
SkipSpaces(s) ==
  IF s # <<>> /\ Head(s) = " " THEN SkipSpaces(Tail(s)) ELSE s

\* the length of the longest prefix of s made of digits
RECURSIVE DigitRun(_)
DigitRun(s) ==
  IF s # <<>> /\ Head(s) \in Digits THEN 1 + DigitRun(Tail(s)) ELSE 0

RECURSIVE DigitsToInt(_)
DigitsToInt(ds) ==
  IF ds = <<>> THEN 0
  ELSE 10 * DigitsToInt(SubSeq(ds, 1, Len(ds) - 1)) + DigitVal(ds[Len(ds)])

RECURSIVE StripZeros(_)
StripZeros(ds) ==
  IF ds # <<>> /\ ds[Len(ds)] = 0 THEN StripZeros(SubSeq(ds, 1, Len(ds) - 1)) ELSE ds

FracDigits(ds) == StripZeros([i \in 1..Len(ds) |-> DigitVal(ds[i])])

InfinityWord == <<"I", "n", "f", "i", "n", "i", "t", "y">>

IsPrefix(p, s) == Len(p) <= Len(s) /\ SubSeq(s, 1, Len(p)) = p

parseFloat(v) ==
  LET s0    == SkipSpaces(JsToString(v))
      signd == s0 # <<>> /\ Head(s0) \in {"+", "-"}
      neg   == s0 # <<>> /\ Head(s0) = "-"
      s1    == IF signd THEN Tail(s0) ELSE s0
      ni    == DigitRun(s1)
      s2    == Drop(s1, ni)
      dot   == s2 # <<>> /\ Head(s2) = "."
      nf    == IF dot THEN DigitRun(Tail(s2)) ELSE 0
  IN  IF IsPrefix(InfinityWord, s1) THEN Infinity(neg)
      ELSE IF ni = 0 /\ nf = 0 THEN NaN
      ELSE Finite(neg, DigitsToInt(SubSeq(s1, 1, ni)),
                  IF dot THEN FracDigits(SubSeq(s2, 2, nf + 1)) ELSE <<>>)

-----------------------------------------------------------------------------
(* ToString of a number, which parseFloat applies to an argument that is    *)
(* not a string: "NaN", "Infinity", or the decimal digits with a "-" before *)
(* a negative number and no sign for zero.  (The numbers of the model are   *)
(* within the range JavaScript prints without an exponent.)                 *)

DigitChar(d) == <<"0", "1", "2", "3", "4", "5", "6", "7", "8", "9">>[d + 1]

RECURSIVE IntToText(_)
IntToText(i) ==
  IF i < 10 THEN <<DigitChar(i)>> ELSE IntToText(i \div 10) \o <<DigitChar(i % 10)>>

NumberToText(n) ==
  CASE n.k = "NaN" -> <<"N", "a", "N">>
    [] n.k = "Infinity" -> (IF n.neg THEN <<"-">> ELSE <<>>) \o InfinityWord
    [] OTHER ->
         (IF n.neg /\ (n.int # 0 \/ n.frac # <<>>) THEN <<"-">> ELSE <<>>)
         \o IntToText(n.int)
         \o (IF n.frac = <<>> THEN <<>>
             ELSE <<".">> \o [i \in 1..Len(n.frac) |-> DigitChar(n.frac[i])])

-----------------------------------------------------------------------------
(* The WKT point parser of the static theme park load *)

PointOpen == <<"P", "O", "I", "N", "T", " ", "(">>

\* the length of the longest prefix of s without ")"
RECURSIVE NotCloseRun(_)
NotCloseRun(s) ==
  IF s # <<>> /\ Head(s) # ")" THEN 1 + NotCloseRun(Tail(s)) ELSE 0

\* /POINT \(([^\)]+)\)/ tried at position i of s: "POINT (", one or more
\* characters other than ")", then ")".  [^\)]+ is greedy and what follows it
\* must be ")", so only the longest run can match.
RegexMatchesAt(s, i) ==
  LET rest == Drop(s, i - 1)
      body == Drop(rest, Len(PointOpen))
      n    == NotCloseRun(body)
  IN  /\ IsPrefix(PointOpen, rest)
      /\ n >= 1
      /\ n < Len(body)

\* wkt.match(...): the leftmost match; the result is the capture group 1
RegexMatch(s) ==
  LET hits == {i \in 1..Len(s) : RegexMatchesAt(s, i)}
  IN  IF hits = {} THEN [found |-> FALSE, group |-> <<>>]
      ELSE LET i    == CHOOSE j \in hits : \A h \in hits : j <= h
               body == Drop(s, i - 1 + Len(PointOpen))
           IN  [found |-> TRUE, group |-> SubSeq(body, 1, NotCloseRun(body))]

\* the length of the longest prefix of s without a space
RECURSIVE NotSpaceRun(_)
NotSpaceRun(s) ==
  IF s # <<>> /\ Head(s) # " " THEN 1 + NotSpaceRun(Tail(s)) ELSE 0

\* s.split(' '): the pieces between single spaces, empty pieces included
RECURSIVE Split(_)
Split(s) ==
  LET n == NotSpaceRun(s)
  IN  IF n = Len(s) THEN <<s>>
      ELSE <<SubSeq(s, 1, n)>> \o Split(Drop(s, n + 1))

\* coords[i] of an array of strings: undefined beyond its length
At(coords, i) == IF i <= Len(coords) THEN Text(coords[i]) ELSE UndefinedText

NullCoords == [k |-> "null", longitude |-> NaN, latitude |-> NaN]

\* mutant: the two tokens are taken in the other order
parseWKTSwapped(wkt) ==
  LET match == RegexMatch(wkt)
  IN  IF match.found
      THEN LET coords == Split(match.group)
           IN  [k |-> "coords",
                longitude |-> parseFloat(At(coords, 2)),
                latitude  |-> parseFloat(At(coords, 1))]
      ELSE NullCoords

parseWKT(wkt) ==
  LET match == RegexMatch(wkt)
  IN  IF match.found
      THEN LET coords == Split(match.group)
           IN  [k |-> "coords",
                longitude |-> parseFloat(At(coords, 1)),
                latitude  |-> parseFloat(At(coords, 2))]
      ELSE NullCoords

\* a ThemePark record; state is optional in the interface
ThemePark(name, latitude, longitude, country, state) ==
  [name |-> name, latitude |-> latitude, longitude |-> longitude,
   country |-> country, state |-> state]

NullPark == [null |-> TRUE, park |-> ThemePark(UndefinedName, NaN, NaN, UndefinedName, UndefinedName)]

\* themeParkData.map(item => ...).filter(park => park !== null)
StaticParks(data) ==
  LET mapped == [i \in 1..Len(data) |->
                   LET coords == parseWKT(data[i].wkt)
                   IN  IF coords.k = "null" THEN NullPark
                       ELSE [null |-> FALSE,
                             park |-> ThemePark(Str(data[i].name), coords.latitude,
                                                coords.longitude, Str("International"),
                                                UndefinedName)]]
      NotNull(p) == ~p.null
      kept == SelectSeq(mapped, NotNull)
  IN  [i \in 1..Len(kept) |-> kept[i].park]

-----------------------------------------------------------------------------
(* The literal theme park list of the static load (134 entries; names are  *)
(* written in ASCII)                                                        *)

themeParkData == <<
    [wkt |-> <<"P", "O", "I", "N", "T", " ", "(", "-", "1", ".", "5", "5", "3", "7", "0", "2", "8", " ", "5", "0", ".", "9", "4", "8", "1", "7", "1", "8", ")">>,
     name |-> "Paultons Park Home of Peppa Pig World"],
    [wkt |-> <<"P", "O", "I", "N", "T", " ", "(", "4", ".", "5", "9", "4", "0", "3", "6", "2", " ", "5", "0", ".", "7", "0", "1", "8", "6", "0", "3", "0", "0", "0", "0", "0", "0", "1", ")">>,
     name |-> "Walibi Belgium"],
    [wkt |-> <<"P", "O", "I", "N", "T", " ", "(", "2", ".", "5", "9", "8", "7", "6", "2", "7", " ", "5", "1", ".", "0", "8", "0", "8", "5", "0", "5", ")">>,
     name |-> "Plopsaland De Panne"],
    [wkt |-> <<"P", "O", "I", "N", "T", " ", "(", "4", ".", "9", "0", "3", "9", "2", "6", " ", "5", "1", ".", "2", "0", "0", "6", "9", "6", "0", "0", "0", "0", "0", "0", "0", "1", ")">>,
     name |-> "Bobbejaanland"],
    [wkt |-> <<"P", "O", "I", "N", "T", " ", "(", "2", ".", "5", "7", "1", "2", "3", "0", "1", " ", "4", "9", ".", "1", "3", "4", "1", "8", "3", "9", ")">>,
     name |-> "Asterix Park"],
    [wkt |-> <<"P", "O", "I", "N", "T", " ", "(", "6", ".", "8", "7", "6", "5", "1", "3", "2", " ", "5", "0", ".", "8", "0", "1", "5", "6", "7", "7", ")">>,
     name |-> "Phantasialand"],
    [wkt |-> <<"P", "O", "I", "N", "T", " ", "(", "7", ".", "7", "2", "2", "0", "0", "7", "6", " ", "4", "8", ".", "2", "6", "6", "0", "1", "9", "4", ")">>,
     name |-> "Europa-Park"],
    [wkt |-> <<"P", "O", "I", "N", "T", " ", "(", "9", ".", "8", "7", "8", "1", "9", "0", "7", " ", "5", "3", ".", "0", "2", "3", "6", "6", "8", "3", ")">>,
     name |-> "Heide Park Resort"],
    [wkt |-> <<"P", "O", "I", "N", "T", " ", "(", "1", "0", ".", "7", "7", "7", "9", "5", "4", "9", " ", "5", "4", ".", "0", "7", "4", "7", "6", "8", "7", ")">>,
     name |-> "Hansa-Park"],
    [wkt |-> <<"P", "O", "I", "N", "T", " ", "(", "8", ".", "2", "9", "9", "7", "7", "8", "4", " ", "4", "9", ".", "3", "1", "7", "9", "7", "1", "7", "0", "0", "0", "0", "0", "0", "1", ")">>,
     name |-> "Holiday Park, Germany"],
    [wkt |-> <<"P", "O", "I", "N", "T", " ", "(", "5", ".", "0", "4", "9", "7", "4", "6", "2", " ", "5", "1", ".", "6", "5", "0", "6", "5", "1", "8", ")">>,
     name |-> "Efteling"],
    [wkt |-> <<"P", "O", "I", "N", "T", " ", "(", "5", ".", "7", "6", "2", "6", "6", "6", "1", " ", "5", "2", ".", "4", "4", "0", "0", "9", "6", ")">>,
     name |-> "Walibi Holland"],
    [wkt |-> <<"P", "O", "I", "N", "T", " ", "(", "4", ".", "3", "8", "4", "2", "7", "3", "9", " ", "5", "2", ".", "1", "4", "7", "4", "9", "8", "2", ")">>,
     name |-> "Duinrell"],
    [wkt |-> <<"P", "O", "I", "N", "T", " ", "(", "5", ".", "9", "8", "4", "7", "6", "6", "7", " ", "5", "1", ".", "3", "9", "6", "8", "8", "3", "4", "9", "9", "9", "9", "9", "9", "9", ")">>,
     name |-> "Toverland"],
    [wkt |-> <<"P", "O", "I", "N", "T", " ", "(", "1", "9", ".", "4", "1", "0", "8", "1", "9", "2", " ", "4", "9", ".", "9", "9", "9", "3", "8", "1", "1", "9", "9", "9", "9", "9", "9", "9", ")">>,
     name |-> "Energylandia"],
    [wkt |-> <<"P", "O", "I", "N", "T", " ", "(", "1", "8", ".", "9", "9", "1", "4", "6", "0", "8", " ", "5", "0", ".", "2", "7", "3", "4", "0", "2", "3", "0", "0", "0", "0", "0", "0", "1", ")">>,
     name |-> "Legendia Slaskie Wesoe Miasteczko"],
    [wkt |-> <<"P", "O", "I", "N", "T", " ", "(", "1", "0", ".", "7", "1", "3", "7", "0", "2", "4", " ", "4", "5", ".", "4", "5", "4", "9", "4", "9", "1", "9", "9", "9", "9", "9", "9", "9", ")">>,
     name |-> "Gardaland Resort"],
    [wkt |-> <<"P", "O", "I", "N", "T", " ", "(", "1", "2", ".", "2", "6", "3", "3", "9", "8", "6", " ", "4", "4", ".", "3", "3", "7", "8", "0", "4", "8", ")">>,
     name |-> "Mirabilandia"],
    [wkt |-> <<"P", "O", "I", "N", "T", " ", "(", "1", ".", "1", "5", "3", "0", "1", "4", "9", " ", "4", "1", ".", "0", "9", "5", "6", "0", "7", "9", ")">>,
     name |-> "Port Aventura"],
    [wkt |-> <<"P", "O", "I", "N", "T", " ", "(", "5", ".", "8", "7", "6", "2", "6", "3", "3", " ", "5", "0", ".", "3", "9", "5", "1", "0", "0", "9", ")">>,
     name |-> "Plopsa Coo"],
    [wkt |-> <<"P", "O", "I", "N", "T", " ", "(", "5", ".", "3", "6", "2", "3", "6", "9", "2", "9", "9", "9", "9", "9", "9", "9", "9", " ", "5", "0", ".", "9", "3", "2", "6", "0", "2", "3", ")">>,
     name |-> "Plopsa Indoor Hasselt"],
    [wkt |-> <<"P", "O", "I", "N", "T", " ", "(", "1", "5", ".", "0", "8", "3", "6", "3", "6", "3", " ", "5", "2", ".", "3", "4", "9", "8", "9", "3", "1", ")">>,
     name |-> "Majaland Kownaty"],
    [wkt |-> <<"P", "O", "I", "N", "T", " ", "(", "6", ".", "5", "5", "7", "1", "3", "0", "7", " ", "5", "2", ".", "6", "2", "6", "8", "5", "4", "8", ")">>,
     name |-> "Slagharen"],
    [wkt |-> <<"P", "O", "I", "N", "T", " ", "(", "1", "2", ".", "3", "1", "5", "3", "0", "1", "8", " ", "5", "1", ".", "2", "5", "1", "7", "1", "4", "3", ")">>,
     name |-> "Belantis"],
    [wkt |-> <<"P", "O", "I", "N", "T", " ", "(", "4", ".", "3", "5", "2", "2", "7", "9", "9", " ", "5", "2", ".", "0", "5", "2", "7", "1", "8", "5", ")">>,
     name |-> "Family park Drievliet"],
    [wkt |-> <<"P", "O", "I", "N", "T", " ", "(", "8", ".", "4", "3", "7", "6", "1", "3", "1", "0", "0", "0", "0", "0", "0", "0", "2", " ", "5", "1", ".", "3", "0", "8", "6", "5", "8", "3", ")">>,
     name |-> "Fort Fun Abenteuerland"],
    [wkt |-> <<"P", "O", "I", "N", "T", " ", "(", "1", "1", ".", "9", "9", "2", "4", "6", "4", "1", " ", "5", "7", ".", "6", "9", "5", "2", "1", "9", "1", ")">>,
     name |-> "Liseberg"],
    [wkt |-> <<"P", "O", "I", "N", "T", " ", "(", "4", ".", "9", "7", "0", "2", "8", "5", "9", " ", "4", "4", ".", "0", "2", "0", "4", "4", "5", "8", ")">>,
     name |-> "Parc Spirou Provence"],
    [wkt |-> <<"P", "O", "I", "N", "T", " ", "(", "-", "4", ".", "8", "0", "0", "0", "8", "0", "9", " ", "5", "1", ".", "7", "7", "7", "5", "1", "8", "0", "0", "0", "0", "0", "0", "0", "1", ")">>,
     name |-> "Oakwood Theme Park"],
    [wkt |-> <<"P", "O", "I", "N", "T", " ", "(", "9", ".", "1", "3", "7", "7", "2", "1", "2", "0", "0", "0", "0", "0", "0", "0", "1", " ", "5", "5", ".", "7", "3", "3", "0", "9", "8", "4", ")">>,
     name |-> "Lalandia i Billund"],
    [wkt |-> <<"P", "O", "I", "N", "T", " ", "(", "9", ".", "6", "5", "0", "5", "6", "6", "7", "9", "9", "9", "9", "9", "9", "9", "8", " ", "5", "7", ".", "2", "7", "1", "3", "3", "5", "3", ")">>,
     name |-> "Farup Sommerland"],
    [wkt |-> <<"P", "O", "I", "N", "T", " ", "(", "1", "2", ".", "5", "7", "7", "7", "7", "1", "4", " ", "5", "5", ".", "7", "7", "5", "2", "2", "0", "7", ")">>,
     name |-> "Bakken"],
    [wkt |-> <<"P", "O", "I", "N", "T", " ", "(", "9", ".", "1", "2", "6", "8", "0", "4", "6", " ", "5", "5", ".", "7", "3", "5", "5", "1", "0", "8", "9", "9", "9", "9", "9", "9", "9", ")">>,
     name |-> "LEGOLAND Billund Resort"],
    [wkt |-> <<"P", "O", "I", "N", "T", " ", "(", "1", ".", "9", "8", "2", "8", "1", "7", " ", "4", "9", ".", "4", "2", "1", "4", "8", "4", ")">>,
     name |-> "Parc Saint-Paul"],
    [wkt |-> <<"P", "O", "I", "N", "T", " ", "(", "2", ".", "2", "6", "9", "7", "6", "4", "9", " ", "4", "8", ".", "8", "7", "7", "7", "8", "2", "2", ")">>,
     name |-> "Jardin d'Acclimatation"],
    [wkt |-> <<"P", "O", "I", "N", "T", " ", "(", "2", ".", "4", "0", "6", "5", "2", "5", "2", " ", "4", "8", ".", "8", "3", "0", "1", "6", "0", "4", ")">>,
     name |-> "Foire du Trone"],
    [wkt |-> <<"P", "O", "I", "N", "T", " ", "(", "6", ".", "1", "5", "5", "9", "9", "7", "6", "0", "0", "0", "0", "0", "0", "0", "1", " ", "4", "9", ".", "2", "2", "5", "3", "4", "9", "5", "0", "0", "0", "0", "0", "0", "1", ")">>,
     name |-> "Walygator Parc"],
    [wkt |-> <<"P", "O", "I", "N", "T", " ", "(", "6", ".", "7", "2", "7", "8", "1", "2", "5", "9", "9", "9", "9", "9", "9", "9", "9", " ", "4", "8", ".", "3", "2", "4", "7", "8", "5", "7", ")">>,
     name |-> "Fraispertuis City"],
    [wkt |-> <<"P", "O", "I", "N", "T", " ", "(", "9", ".", "0", "5", "2", "6", "1", "2", " ", "4", "9", ".", "0", "3", "5", "2", "7", "4", "8", ")">>,
     name |-> "Erlebnispark Tripsdrill"],
    [wkt |-> <<"P", "O", "I", "N", "T", " ", "(", "4", ".", "6", "1", "0", "0", "3", "2", "9", "9", "9", "9", "9", "9", "9", "9", "9", " ", "4", "8", ".", "2", "6", "0", "6", "4", "1", ")">>,
     name |-> "Nigloland"],
    [wkt |-> <<"P", "O", "I", "N", "T", " ", "(", "1", "2", ".", "5", "6", "8", "1", "4", "7", "1", " ", "5", "5", ".", "6", "7", "3", "6", "8", "4", "1", ")">>,
     name |-> "Tivoli Gardens"],
    [wkt |-> <<"P", "O", "I", "N", "T", " ", "(", "1", "8", ".", "0", "9", "6", "3", "9", " ", "5", "9", ".", "3", "2", "3", "3", "5", "6", "3", "9", "9", "9", "9", "9", "9", "9", ")">>,
     name |-> "Grona Lund"],
    [wkt |-> <<"P", "O", "I", "N", "T", " ", "(", "2", ".", "2", "4", "4", "2", "3", "1", "8", "0", "0", "0", "0", "0", "0", "0", "1", " ", "4", "8", ".", "8", "6", "7", "3", "0", "5", "1", ")">>,
     name |-> "Parc Bagatelle - la Roseraie"],
    [wkt |-> <<"P", "O", "I", "N", "T", " ", "(", "1", ".", "3", "7", "7", "1", "9", "1", "6", " ", "5", "1", ".", "3", "8", "5", "2", "3", "3", "1", "0", "0", "0", "0", "0", "0", "1", ")">>,
     name |-> "Dreamland Margate"],
    [wkt |-> <<"P", "O", "I", "N", "T", " ", "(", "6", ".", "4", "3", "6", "0", "8", "3", "3", " ", "5", "2", ".", "3", "8", "9", "6", "2", "7", "6", ")">>,
     name |-> "AdventurePark Hellendoorn"],
    [wkt |-> <<"P", "O", "I", "N", "T", " ", "(", "6", ".", "8", "0", "7", "7", "4", "1", "0", "9", "9", "9", "9", "9", "9", "9", "9", " ", "5", "2", ".", "2", "4", "4", "4", "8", "0", "2", ")">>,
     name |-> "Attractiepark de Waarbeek"],
    [wkt |-> <<"P", "O", "I", "N", "T", " ", "(", "-", "3", ".", "0", "1", "0", "5", "7", "1", "1", " ", "5", "1", ".", "2", "8", "5", "6", "2", "2", "7", ")">>,
     name |-> "Brean Theme Park"],
    [wkt |-> <<"P", "O", "I", "N", "T", " ", "(", "-", "3", ".", "5", "9", "2", "6", "3", "0", "2", "9", "9", "9", "9", "9", "9", "9", "9", " ", "4", "0", ".", "2", "3", "1", "6", "1", "1", "6", ")">>,
     name |-> "Parque Warner Madrid"],
    [wkt |-> <<"P", "O", "I", "N", "T", " ", "(", "1", "2", ".", "4", "4", "6", "5", "5", "4", "9", " ", "4", "1", ".", "7", "0", "9", "9", "3", "1", ")">>,
     name |-> "Cinecitta World"],
    [wkt |-> <<"P", "O", "I", "N", "T", " ", "(", "6", ".", "9", "7", "2", "3", "9", "3", "2", "9", "9", "9", "9", "9", "9", "9", "9", " ", "5", "1", ".", "6", "2", "0", "8", "0", "2", "7", "0", "0", "0", "0", "0", "0", "1", ")">>,
     name |-> "Movie Park Germany"],
    [wkt |-> <<"P", "O", "I", "N", "T", " ", "(", "6", ".", "1", "7", "0", "8", "0", "4", "8", "9", "9", "9", "9", "9", "9", "9", "8", " ", "5", "1", ".", "3", "9", "9", "9", "1", "7", "4", ")">>,
     name |-> "Taurus World of Adventure"],
    [wkt |-> <<"P", "O", "I", "N", "T", " ", "(", "1", "6", ".", "3", "9", "9", "0", "3", "2", "8", " ", "5", "8", ".", "6", "6", "0", "5", "3", "6", "9", ")">>,
     name |-> "Kolmarden"],
    [wkt |-> <<"P", "O", "I", "N", "T", " ", "(", "-", "3", ".", "7", "5", "0", "0", "8", "9", "2", "0", "0", "0", "0", "0", "0", "0", "1", " ", "4", "0", ".", "4", "1", "1", "8", "6", "0", "9", ")">>,
     name |-> "Parque de Atracciones de Madrid"],
    [wkt |-> <<"P", "O", "I", "N", "T", " ", "(", "1", "0", ".", "4", "5", "6", "6", "0", "0", "2", " ", "4", "9", ".", "7", "7", "9", "4", "6", "3", "9", ")">>,
     name |-> "Freizeit-Land Geiselwind"],
    [wkt |-> <<"P", "O", "I", "N", "T", " ", "(", "1", "2", ".", "9", "5", "6", "0", "3", "5", "9", " ", "4", "1", ".", "7", "6", "5", "2", "5", "5", ")">>,
     name |-> "Rainbow Magicland"],
    [wkt |-> <<"P", "O", "I", "N", "T", " ", "(", "1", "0", ".", "5", "9", "1", "2", "3", "4", "4", " ", "4", "8", ".", "0", "4", "3", "0", "2", "3", "4", ")">>,
     name |-> "Allgau Skyline Park"],
    [wkt |-> <<"P", "O", "I", "N", "T", " ", "(", "9", ".", "6", "5", "4", "8", "6", "1", "6", " ", "4", "8", ".", "9", "0", "3", "1", "0", "2", "9", ")">>,
     name |-> "Schwaben Park"],
    [wkt |-> <<"P", "O", "I", "N", "T", " ", "(", "7", ".", "9", "2", "2", "3", "6", "4", "9", "9", "9", "9", "9", "9", "9", "9", "9", " ", "4", "7", ".", "8", "9", "9", "7", "6", "3", ")">>,
     name |-> "Steinwasen Park"],
    [wkt |-> <<"P", "O", "I", "N", "T", " ", "(", "-", "3", ".", "0", "5", "5", "2", "9", "2", "7", " ", "5", "3", ".", "7", "9", "2", "3", "3", ")">>,
     name |-> "Blackpool Pleasure Beach"],
    [wkt |-> <<"P", "O", "I", "N", "T", " ", "(", "-", "1", ".", "7", "1", "3", "7", "7", "2", "3", " ", "5", "2", ".", "6", "1", "2", "2", "1", "4", "8", ")">>,
     name |-> "Drayton Manor Theme Park"],
    [wkt |-> <<"P", "O", "I", "N", "T", " ", "(", "-", "2", ".", "2", "8", "6", "5", "6", "9", "6", " ", "5", "2", ".", "3", "7", "7", "9", "5", "9", "2", "0", "0", "0", "0", "0", "0", "1", ")">>,
     name |-> "West Midland Safari Park"],
    [wkt |-> <<"P", "O", "I", "N", "T", " ", "(", "-", "0", ".", "5", "1", "2", "3", "9", "1", "1", "9", "9", "9", "9", "9", "9", "9", "9", "9", " ", "5", "1", ".", "4", "0", "5", "1", "0", "0", "2", "0", "0", "0", "0", "0", "0", "1", ")">>,
     name |-> "Thorpe Park Resort"],
    [wkt |-> <<"P", "O", "I", "N", "T", " ", "(", "-", "0", ".", "3", "1", "9", "2", "1", "2", "7", " ", "5", "1", ".", "3", "4", "7", "2", "1", "7", "3", ")">>,
     name |-> "Chessington World of Adventures Resort"],
    [wkt |-> <<"P", "O", "I", "N", "T", " ", "(", "-", "1", ".", "8", "8", "6", "4", "5", "1", "2", " ", "5", "2", ".", "9", "8", "7", "4", "3", "6", "6", ")">>,
     name |-> "Alton Towers"],
    [wkt |-> <<"P", "O", "I", "N", "T", " ", "(", "-", "0", ".", "8", "0", "9", "5", "3", "0", "7", "9", "9", "9", "9", "9", "9", "9", "9", "8", " ", "5", "4", ".", "2", "0", "6", "5", "1", "2", "0", "9", "9", "9", "9", "9", "9", "9", ")">>,
     name |-> "Flamingo Land Resort"],
    [wkt |-> <<"P", "O", "I", "N", "T", " ", "(", "-", "1", ".", "5", "6", "3", "7", "5", "9", "2", " ", "5", "4", ".", "1", "7", "7", "2", "2", "3", "4", ")">>,
     name |-> "Lightwater Valley Family Adventure Park"],
    [wkt |-> <<"P", "O", "I", "N", "T", " ", "(", "-", "0", ".", "6", "5", "0", "0", "2", "7", "5", "0", "0", "0", "0", "0", "0", "0", "0", "1", " ", "5", "1", ".", "4", "6", "3", "8", "3", "3", "8", ")">>,
     name |-> "LEGOLAND Windsor Resort"],
    [wkt |-> <<"P", "O", "I", "N", "T", " ", "(", "-", "0", ".", "7", "0", "8", "4", "6", "2", "5", "9", "9", "9", "9", "9", "9", "9", "9", "9", " ", "5", "2", ".", "3", "8", "6", "8", "6", "8", "9", ")">>,
     name |-> "Wicksteed Park"],
    [wkt |-> <<"P", "O", "I", "N", "T", " ", "(", "-", "8", "1", ".", "4", "6", "7", "6", "7", "2", " ", "2", "8", ".", "4", "7", "5", "4", "2", "3", "5", ")">>,
     name |-> "Universal Studios Florida"],
    [wkt |-> <<"P", "O", "I", "N", "T", " ", "(", "-", "8", "2", ".", "4", "1", "9", "4", "6", "0", "7", " ", "2", "8", ".", "0", "3", "7", "0", "6", "6", ")">>,
     name |-> "Busch Gardens Tampa Bay"],
    [wkt |-> <<"P", "O", "I", "N", "T", " ", "(", "-", "7", "6", ".", "6", "4", "5", "8", "9", "7", "4", "9", "9", "9", "9", "9", "9", "9", " ", "3", "7", ".", "2", "3", "6", "4", "0", "5", ")">>,
     name |-> "Busch Gardens Williamsburg"],
    [wkt |-> <<"P", "O", "I", "N", "T", " ", "(", "-", "8", "1", ".", "6", "9", "1", "0", "4", "1", "8", " ", "2", "7", ".", "9", "8", "8", "5", "6", "5", "9", ")">>,
     name |-> "LEGOLAND Florida Resort"],
    [wkt |-> <<"P", "O", "I", "N", "T", " ", "(", "-", "8", "1", ".", "4", "5", "5", "5", "5", "7", "3", " ", "2", "8", ".", "4", "6", "5", "4", "1", "7", "6", ")">>,
     name |-> "Fun Spot America Theme Parks"],
    [wkt |-> <<"P", "O", "I", "N", "T", " ", "(", "0", ".", "7", "1", "6", "6", "3", "6", "6", " ", "5", "1", ".", "5", "3", "2", "9", "0", "9", "7", ")">>,
     name |-> "Adventure Island"],
    [wkt |-> <<"P", "O", "I", "N", "T", " ", "(", "1", ".", "7", "4", "4", "4", "0", "3", "1", " ", "5", "2", ".", "5", "0", "7", "0", "3", "1", "8", "9", "9", "9", "9", "9", "9", "9", ")">>,
     name |-> "Pleasurewood Hills Family Theme Park"],
    [wkt |-> <<"P", "O", "I", "N", "T", " ", "(", "0", ".", "3", "4", "7", "8", "3", "4", "1", " ", "5", "3", ".", "1", "9", "2", "3", "9", "8", "1", ")">>,
     name |-> "Fantasy Island"],
    [wkt |-> <<"P", "O", "I", "N", "T", " ", "(", "-", "1", "1", "8", ".", "0", "0", "0", "2", "2", "6", "5", " ", "3", "3", ".", "8", "4", "4", "3", "0", "3", "8", ")">>,
     name |-> "Knott's Berry Farm"],
    [wkt |-> <<"P", "O", "I", "N", "T", " ", "(", "-", "1", "1", "8", ".", "5", "9", "7", "2", "1", "9", "1", " ", "3", "4", ".", "4", "2", "5", "3", "3", "0", "4", "9", "9", "9", "9", "9", "9", "9", ")">>,
     name |-> "Six Flags Magic Mountain"],
    [wkt |-> <<"P", "O", "I", "N", "T", " ", "(", "-", "6", ".", "4", "5", "9", "4", "7", "2", "7", "9", "9", "9", "9", "9", "9", "9", "9", " ", "5", "3", ".", "5", "4", "5", "3", "1", "4", "1", "9", "9", "9", "9", "9", "9", "9", ")">>,
     name |-> "Emerald Park"],
    [wkt |-> <<"P", "O", "I", "N", "T", " ", "(", "-", "1", "1", "7", ".", "2", "5", "1", "8", "9", "7", "9", " ", "3", "2", ".", "7", "7", "0", "8", "9", "5", ")">>,
     name |-> "Belmont Park"],
    [wkt |-> <<"P", "O", "I", "N", "T", " ", "(", "1", "1", "4", ".", "0", "4", "1", "2", "8", "1", "9", " ", "2", "2", ".", "3", "1", "2", "9", "6", "6", "6", ")">>,
     name |-> "Hong Kong Disneyland"],
    [wkt |-> <<"P", "O", "I", "N", "T", " ", "(", "1", "1", "4", ".", "1", "7", "2", "1", "7", "4", "6", " ", "2", "2", ".", "2", "3", "4", "6", "3", "5", "9", ")">>,
     name |-> "Ocean Park"],
    [wkt |-> <<"P", "O", "I", "N", "T", " ", "(", "1", "2", "1", ".", "6", "6", "6", "8", "0", "9", " ", "3", "1", ".", "1", "4", "2", "2", "8", "7", "7", "9", "9", "9", "9", "9", "9", "9", ")">>,
     name |-> "Shanghai Disney Resort"],
    [wkt |-> <<"P", "O", "I", "N", "T", " ", "(", "1", "3", "8", ".", "7", "8", "0", "5", "5", "1", "1", " ", "3", "5", ".", "4", "8", "6", "9", "4", "6", "7", ")">>,
     name |-> "Fuji-Q Highland"],
    [wkt |-> <<"P", "O", "I", "N", "T", " ", "(", "1", "3", "9", ".", "8", "8", "0", "3", "9", "4", "3", " ", "3", "5", ".", "6", "3", "2", "8", "9", "6", "4", ")">>,
     name |-> "Tokyo Disneyland"],
    [wkt |-> <<"P", "O", "I", "N", "T", " ", "(", "1", "2", "1", ".", "2", "1", "3", "8", "0", "9", " ", "3", "1", ".", "1", "0", "0", "7", "5", "4", ")">>,
     name |-> "Shanghai Happy Valley (North Gate)"],
    [wkt |-> <<"P", "O", "I", "N", "T", " ", "(", "5", "5", ".", "0", "0", "3", "8", "4", "3", "4", " ", "2", "4", ".", "9", "2", "0", "7", "3", "2", ")">>,
     name |-> "MOTIONGATETM Dubai"],
    [wkt |-> <<"P", "O", "I", "N", "T", " ", "(", "5", "5", ".", "0", "1", "0", "0", "2", "8", "8", "0", "0", "0", "0", "0", "0", "1", " ", "2", "4", ".", "9", "1", "8", "8", "0", "4", "9", ")">>,
     name |-> "Legoland Dubai"],
    [wkt |-> <<"P", "O", "I", "N", "T", " ", "(", "5", "4", ".", "6", "0", "7", "0", "0", "6", "6", " ", "2", "4", ".", "4", "8", "3", "7", "6", "3", "4", ")">>,
     name |-> "Ferrari World Abu Dhabi"],
    [wkt |-> <<"P", "O", "I", "N", "T", " ", "(", "5", "5", ".", "3", "1", "8", "0", "7", "1", "4", "0", "0", "0", "0", "0", "0", "1", " ", "2", "5", ".", "0", "8", "2", "1", "4", "4", "9", ")">>,
     name |-> "IMG Worlds of Adventure"],
    [wkt |-> <<"P", "O", "I", "N", "T", " ", "(", "-", "8", "2", ".", "6", "8", "3", "5", "2", "0", "6", " ", "4", "1", ".", "4", "8", "2", "2", "0", "7", ")">>,
     name |-> "Cedar Point"],
    [wkt |-> <<"P", "O", "I", "N", "T", " ", "(", "-", "9", "8", ".", "6", "1", "0", "5", "6", "0", "7", " ", "2", "9", ".", "5", "9", "9", "1", "1", "5", "6", ")">>,
     name |-> "Six Flags Fiesta Texas"],
    [wkt |-> <<"P", "O", "I", "N", "T", " ", "(", "-", "9", "7", ".", "0", "7", "0", "0", "3", "4", "7", " ", "3", "2", ".", "7", "5", "5", "2", "9", "2", "4", "0", "0", "0", "0", "0", "0", "1", ")">>,
     name |-> "Six Flags Over Texas"],
    [wkt |-> <<"P", "O", "I", "N", "T", " ", "(", "-", "9", "3", ".", "3", "3", "8", "8", "4", "2", "5", "9", "9", "9", "9", "9", "9", "9", " ", "3", "6", ".", "6", "6", "7", "0", "2", "9", "3", "9", "9", "9", "9", "9", "9", "9", ")">>,
     name |-> "Silver Dollar City"],
    [wkt |-> <<"P", "O", "I", "N", "T", " ", "(", "-", "9", "4", ".", "4", "8", "6", "2", "4", "7", "9", "9", "9", "9", "9", "9", "9", "9", " ", "3", "9", ".", "1", "7", "6", "5", "8", "2", "6", ")">>,
     name |-> "Worlds of Fun"],
    [wkt |-> <<"P", "O", "I", "N", "T", " ", "(", "-", "9", "0", ".", "6", "7", "5", "0", "1", "8", "1", " ", "3", "8", ".", "5", "1", "2", "9", "8", "5", "6", ")">>,
     name |-> "Six Flags St. Louis"],
    [wkt |-> <<"P", "O", "I", "N", "T", " ", "(", "-", "8", "6", ".", "9", "1", "5", "8", "1", "0", "1", " ", "3", "8", ".", "1", "1", "8", "7", "4", "4", "3", ")">>,
     name |-> "Holiday World & Splashin' Safari"],
    [wkt |-> <<"P", "O", "I", "N", "T", " ", "(", "-", "8", "4", ".", "2", "6", "9", "1", "4", "2", "3", " ", "3", "9", ".", "3", "4", "5", "1", "7", "9", "8", ")">>,
     name |-> "Kings Island"],
    [wkt |-> <<"P", "O", "I", "N", "T", " ", "(", "-", "8", "3", ".", "5", "3", "1", "1", "8", "6", "2", " ", "3", "5", ".", "7", "9", "5", "1", "0", "2", "6", ")">>,
     name |-> "Dollywood"],
    [wkt |-> <<"P", "O", "I", "N", "T", " ", "(", "-", "8", "4", ".", "5", "4", "9", "7", "3", "7", "6", " ", "3", "3", ".", "7", "6", "9", "8", "9", "2", "3", ")">>,
     name |-> "Six Flags Over Georgia"],
    [wkt |-> <<"P", "O", "I", "N", "T", " ", "(", "-", "8", "0", ".", "9", "4", "3", "2", "7", "9", "8", " ", "3", "5", ".", "1", "0", "3", "4", "0", "4", "1", ")">>,
     name |-> "Carowinds"],
    [wkt |-> <<"P", "O", "I", "N", "T", " ", "(", "-", "7", "7", ".", "4", "4", "4", "1", "9", "1", "1", "9", "9", "9", "9", "9", "9", "9", " ", "3", "7", ".", "8", "3", "9", "8", "7", "1", ")">>,
     name |-> "Kings Dominion"],
    [wkt |-> <<"P", "O", "I", "N", "T", " ", "(", "-", "7", "9", ".", "8", "6", "1", "8", "8", "2", "7", "9", "9", "9", "9", "9", "9", "9", " ", "4", "0", ".", "3", "8", "6", "6", "2", "2", ")">>,
     name |-> "Kennywood"],
    [wkt |-> <<"P", "O", "I", "N", "T", " ", "(", "-", "7", "9", ".", "5", "4", "2", "9", "0", "8", " ", "4", "3", ".", "8", "2", "8", "7", "7", "2", "3", "9", "9", "9", "9", "9", "9", "9", ")">>,
     name |-> "Canada's Wonderland"],
    [wkt |-> <<"P", "O", "I", "N", "T", " ", "(", "-", "7", "6", ".", "5", "0", "4", "2", "2", "9", "9", " ", "4", "0", ".", "8", "7", "7", "5", "3", "1", "3", ")">>,
     name |-> "Knoebels Amusement Resort"],
    [wkt |-> <<"P", "O", "I", "N", "T", " ", "(", "-", "7", "6", ".", "6", "5", "4", "7", "4", "6", "8", "9", "9", "9", "9", "9", "9", "9", " ", "4", "0", ".", "2", "8", "8", "7", "8", "0", "9", ")">>,
     name |-> "Hersheypark"],
    [wkt |-> <<"P", "O", "I", "N", "T", " ", "(", "-", "7", "4", ".", "4", "3", "6", "1", "6", "2", "9", " ", "4", "0", ".", "1", "3", "6", "0", "6", "0", "4", "9", "9", "9", "9", "9", "9", "9", ")">>,
     name |-> "Six Flags Great Adventure"],
    [wkt |-> <<"P", "O", "I", "N", "T", " ", "(", "-", "7", "3", ".", "9", "7", "8", "2", " ", "4", "0", ".", "5", "7", "5", "2", "7", "9", "5", ")">>,
     name |-> "Luna Park in Coney Island"],
    [wkt |-> <<"P", "O", "I", "N", "T", " ", "(", "-", "1", "1", "7", ".", "9", "1", "8", "9", "8", "9", " ", "3", "3", ".", "8", "1", "0", "4", "8", "5", ")">>,
     name |-> "Disneyland Resort"],
    [wkt |-> <<"P", "O", "I", "N", "T", " ", "(", "1", "9", ".", "4", "4", "2", "0", "7", "7", "6", " ", "4", "9", ".", "9", "8", "8", "6", "7", "4", "1", ")">>,
     name |-> "Zatorland Amusement Park"],
    [wkt |-> <<"P", "O", "I", "N", "T", " ", "(", "2", ".", "1", "1", "8", "6", "1", "1", " ", "4", "1", ".", "4", "2", "2", "5", ")">>,
     name |-> "Tibidabo"],
    [wkt |-> <<"P", "O", "I", "N", "T", " ", "(", "-", "1", "1", "5", ".", "1", "5", "6", "5", "5", "3", "7", " ", "3", "6", ".", "1", "4", "7", "5", "1", "1", "9", ")">>,
     name |-> "The STRAT Hotel, Casino & SkyPod"],
    [wkt |-> <<"P", "O", "I", "N", "T", " ", "(", "1", "6", ".", "4", "2", "1", "6", "9", "9", " ", "4", "8", ".", "2", "0", "1", "1", "4", "5", "1", "0", "0", "0", "0", "0", "0", "1", ")">>,
     name |-> "Wiener Prater"],
    [wkt |-> <<"P", "O", "I", "N", "T", " ", "(", "1", "6", ".", "6", "4", "7", "7", "5", "2", "6", " ", "4", "7", ".", "8", "0", "2", "2", "6", "3", "4", ")">>,
     name |-> "Familypark Neusiedlersee"],
    [wkt |-> <<"P", "O", "I", "N", "T", " ", "(", "2", ".", "7", "8", "3", "5", "9", "3", " ", "4", "8", ".", "8", "6", "7", "3", "8", "5", "8", ")">>,
     name |-> "Disneyland Paris"],
    [wkt |-> <<"P", "O", "I", "N", "T", " ", "(", "-", "0", ".", "1", "5", "7", "7", "7", "5", "2", " ", "3", "8", ".", "5", "5", "9", "4", "3", "8", "4", ")">>,
     name |-> "Terra Mitica"],
    [wkt |-> <<"P", "O", "I", "N", "T", " ", "(", "9", ".", "6", "1", "7", "3", "8", "8", "0", "0", "0", "0", "0", "0", "0", "0", "2", " ", "5", "2", ".", "7", "5", "0", "8", "9", "4", "8", ")">>,
     name |-> "Serengeti Park Hodenhagen - \"Safari Adventure in the middle of Europe\""],
    [wkt |-> <<"P", "O", "I", "N", "T", " ", "(", "-", "7", "5", ".", "5", "3", "3", "1", "0", "6", "1", "9", "9", "9", "9", "9", "9", "9", " ", "4", "0", ".", "5", "7", "8", "4", "5", "4", "9", ")">>,
     name |-> "Dorney Park & Wildwater Kingdom"],
    [wkt |-> <<"P", "O", "I", "N", "T", " ", "(", "-", "8", "0", ".", "1", "5", "6", "4", "3", "9", "3", " ", "4", "2", ".", "1", "0", "8", "5", "8", "0", "5", ")">>,
     name |-> "Waldameer park"],
    [wkt |-> <<"P", "O", "I", "N", "T", " ", "(", "-", "8", "6", ".", "7", "7", "1", "1", "2", "1", "9", " ", "4", "0", ".", "7", "9", "1", "6", "2", "5", "3", ")">>,
     name |-> "Indiana Beach"],
    [wkt |-> <<"P", "O", "I", "N", "T", " ", "(", "-", "8", "9", ".", "7", "9", "6", "3", "2", "9", "1", " ", "4", "3", ".", "6", "2", "5", "0", "2", "6", ")">>,
     name |-> "Mt. Olympus Resort"],
    [wkt |-> <<"P", "O", "I", "N", "T", " ", "(", "-", "9", "2", ".", "3", "1", "2", "4", "0", "6", "7", "9", "9", "9", "9", "9", "9", "9", " ", "4", "2", ".", "4", "4", "3", "0", "7", "2", "2", ")">>,
     name |-> "Lost Island Waterpark & Adventure Golf & Go-Karts"],
    [wkt |-> <<"P", "O", "I", "N", "T", " ", "(", "-", "9", "3", ".", "4", "9", "6", "9", "4", "6", "2", "9", "9", "9", "9", "9", "9", "9", " ", "4", "1", ".", "6", "5", "7", "6", "4", "6", ")">>,
     name |-> "Adventureland Resort"],
    [wkt |-> <<"P", "O", "I", "N", "T", " ", "(", "-", "8", "5", ".", "7", "4", "4", "8", "9", "2", "2", "9", "9", "9", "9", "9", "9", "9", " ", "3", "8", ".", "1", "9", "7", "7", "1", "6", "3", ")">>,
     name |-> "Kentucky Kingdom & Hurricane Bay"],
    [wkt |-> <<"P", "O", "I", "N", "T", " ", "(", "-", "8", "4", ".", "4", "2", "7", "9", "7", "2", "5", "9", "9", "9", "9", "9", "9", "9", " ", "3", "3", ".", "4", "9", "6", "3", "3", "1", "2", ")">>,
     name |-> "Fun Spot America Theme Parks  Atlanta"],
    [wkt |-> <<"P", "O", "I", "N", "T", " ", "(", "1", "0", "3", ".", "8", "2", "3", "8", "0", "8", "4", " ", "1", ".", "2", "5", "4", "0", "4", "2", "1", ")">>,
     name |-> "Universal Studios Singapore"],
    [wkt |-> <<"P", "O", "I", "N", "T", " ", "(", "1", "5", "3", ".", "3", "1", "3", "1", "1", "0", "3", " ", "-", "2", "7", ".", "9", "0", "6", "9", "5", "7", ")">>,
     name |-> "Warner Bros. Movie World"],
    [wkt |-> <<"P", "O", "I", "N", "T", " ", "(", "1", "5", "3", ".", "0", "4", "6", "5", "1", "3", "8", " ", "-", "2", "6", ".", "7", "4", "9", "8", "6", "2", "3", ")">>,
     name |-> "Aussie World"],
    [wkt |-> <<"P", "O", "I", "N", "T", " ", "(", "1", "5", "3", ".", "3", "1", "7", "5", "7", "2", "5", " ", "-", "2", "7", ".", "9", "1", "4", "7", "4", "9", "2", ")">>,
     name |-> "Wet'n'Wild Gold Coast"],
    [wkt |-> <<"P", "O", "I", "N", "T", " ", "(", "1", "5", "3", ".", "3", "1", "5", "2", "5", "3", "1", " ", "-", "2", "7", ".", "8", "6", "3", "5", "0", "7", "6", ")">>,
     name |-> "Dreamworld"],
    [wkt |-> <<"P", "O", "I", "N", "T", " ", "(", "1", "5", "3", ".", "4", "2", "5", "7", "6", "2", "4", " ", "-", "2", "7", ".", "9", "5", "3", "2", "0", "4", "4", "9", "9", "9", "9", "9", "9", "9", ")">>,
     name |-> "Sea World Resort"],
    [wkt |-> <<"P", "O", "I", "N", "T", " ", "(", "1", "4", "4", ".", "9", "7", "6", "9", "2", "4", " ", "-", "3", "7", ".", "8", "6", "7", "8", "1", "4", "7", ")">>,
     name |-> "Luna Park Melbourne"],
    [wkt |-> <<"P", "O", "I", "N", "T", " ", "(", "1", "0", "1", ".", "7", "9", "4", "8", "6", "3", "8", " ", "3", ".", "4", "2", "4", "7", "6", "3", "4", ")">>,
     name |-> "Skytropolis Indoor Theme Park"],
    [wkt |-> <<"P", "O", "I", "N", "T", " ", "(", "5", "4", ".", "6", "1", "9", "3", "1", "5", "1", "9", "9", "9", "9", "9", "9", "9", " ", "2", "4", ".", "4", "8", "5", "4", "0", "4", "8", ")">>,
     name |-> "SeaWorld Abu Dhabi"] >>

-----------------------------------------------------------------------------
(* Bounds and inputs *)

\* the longest events array of a feed response
MaxEvents == 2

\* the most rows of a parsed CSV file
MaxRows == 2

SeqUpTo(S, n) == UNION {[1..m -> S] : m \in 0..n}

\* one entry of data.events: null, or an object whose fields may be missing
FeedEntry(id, name, latitude, longitude) ==
  [null |-> FALSE, id |-> id, name |-> name, latitude |-> latitude,
   longitude |-> longitude, country |-> UndefinedName, region |-> UndefinedName,
   status |-> UndefinedName]

NullEntry ==
  [null |-> TRUE, id |-> 0, name |-> UndefinedName, latitude |-> UndefinedText,
   longitude |-> UndefinedText, country |-> UndefinedName, region |-> UndefinedName,
   status |-> UndefinedName]

EventInputs ==
  { FeedEntry(1, Str("A"), Text(<<"5", "1", ".", "5">>), Text(<<"-", "0", ".", "1">>)),
    FeedEntry(1, Str("A"), Text(<<"b", "a", "d">>), Text(<<"-", "1", ".", "0">>)),
    FeedEntry(2, Str(""), Text(<<"9", "5">>), Text(<<"2", "0", "0">>)),
    NullEntry }

\* the value response.json() resolves to: null, or an object whose events
\* field is missing, a string, or an array of entries
ParkrunData ==
  { [k |-> "null", ek |-> "undefined", items |-> <<>>],
    [k |-> "object", ek |-> "undefined", items |-> <<>>],
    [k |-> "object", ek |-> "string", items |-> <<>>] }
  \cup { [k |-> "object", ek |-> "array", items |-> s] : s \in SeqUpTo(EventInputs, MaxEvents) }

\* the column names a CSV header may hold
ColumnNames ==
  { "name", "Name", "NAME", "latitude", "Latitude", "LATITUDE", "lat",
    "longitude", "Longitude", "LONGITUDE", "lng", "lon",
    "country", "Country", "state", "State" }

TextColumns ==
  { "latitude", "Latitude", "LATITUDE", "lat", "longitude", "Longitude", "LONGITUDE", "lng", "lon" }

\* a row of results.data: the columns the header lacks are undefined
EmptyRow == [c \in ColumnNames |-> IF c \in TextColumns THEN UndefinedText ELSE UndefinedName]

Row(cells) == [c \in ColumnNames |-> IF c \in DOMAIN cells THEN cells[c] ELSE EmptyRow[c]]

RowInputs ==
  { Row([Name |-> Str("X Park"), Latitude |-> Text(<<"1", "0", ".", "5">>),
         Longitude |-> Text(<<"-", "2", "0", ".", "2", "5">>), Country |-> Str("Z")]),
    Row([name |-> Str("Y"), lat |-> Text(<<"9", "1">>), lng |-> Text(<<"-", "1", "8", "1">>),
         state |-> Str("S")]),
    Row([name |-> Str("Y"), longitude |-> Text(<<"3">>)]),
    Row([name |-> Str(""), latitude |-> Text(<<"4">>), lon |-> Text(<<"5">>)]),
    Row([NAME |-> Str("Up"), LATITUDE |-> Text(<<"6">>), LONGITUDE |-> Text(<<"7">>)]) }

CsvData == SeqUpTo(RowInputs, MaxRows)

-----------------------------------------------------------------------------
(* The normalisers of the two fetches *)

\* mutant: the two coordinates are read from each other's field
ParkrunEventSwapped(event) ==
  [id |-> event.id, name |-> event.name,
   latitude |-> parseFloat(event.longitude),
   longitude |-> parseFloat(event.latitude),
   country |-> Or(event.country, Str("UK")),
   region |-> Or(event.region, Str("")),
   status |-> Or(event.status, Str("active"))]

ParkrunEvent(event) ==
  [id |-> event.id, name |-> event.name,
   latitude |-> parseFloat(event.latitude),
   longitude |-> parseFloat(event.longitude),
   country |-> Or(event.country, Str("UK")),
   region |-> Or(event.region, Str("")),
   status |-> Or(event.status, Str("active"))]

\* mutant: the filter forgets the latitude
ParkrunKeepLongitudeOnly(event) == ~isNaN(event.longitude)

ParkrunKeep(event) == ~isNaN(event.latitude) /\ ~isNaN(event.longitude)

\* mutant: a response without a record that survives counts as a failure
ParkrunTransformEmptyThrows(data) ==
  IF data.k = "null" \/ data.ek = "string" \/ \E i \in 1..Len(data.items) : data.items[i].null
  THEN [threw |-> TRUE, events |-> <<>>]
  ELSE LET events == SelectSeq([i \in 1..Len(data.items) |-> ParkrunEvent(data.items[i])],
                               ParkrunKeep)
       IN  [threw |-> events = <<>>, events |-> events]

\* data.events?.map(...).filter(...) || []
\* threw: reading .events of null, calling .map of a string, or reading .id of
\* a null entry raises a TypeError
ParkrunTransform(data) ==
  IF data.k = "null" \/ data.ek = "string" \/ \E i \in 1..Len(data.items) : data.items[i].null
  THEN [threw |-> TRUE, events |-> <<>>]
  ELSE IF data.ek = "undefined" THEN [threw |-> FALSE, events |-> <<>>]
  ELSE [threw |-> FALSE,
        events |-> SelectSeq([i \in 1..Len(data.items) |-> ParkrunEvent(data.items[i])],
                             ParkrunKeep)]

NumberLit(neg, int, frac) == Finite(neg, int, frac)

SampleParkrun(id, name, latitude, longitude, region) ==
  [id |-> id, name |-> Str(name), latitude |-> latitude, longitude |-> longitude,
   country |-> Str("UK"), region |-> Str(region), status |-> Str("active")]

sampleParkruns ==
  << SampleParkrun(1, "Bushy Park parkrun", NumberLit(FALSE, 51, <<4, 1, 0, 8>>),
                   NumberLit(TRUE, 0, <<3, 3, 7>>), "London"),
     SampleParkrun(2, "Wimbledon Common parkrun", NumberLit(FALSE, 51, <<4, 2, 9, 7>>),
                   NumberLit(TRUE, 0, <<2, 3, 5, 6>>), "London"),
     SampleParkrun(3, "Hampstead Heath parkrun", NumberLit(FALSE, 51, <<5, 5, 8, 4>>),
                   NumberLit(TRUE, 0, <<1, 6, 5, 6>>), "London"),
     SampleParkrun(4, "Birmingham parkrun", NumberLit(FALSE, 52, <<4, 8, 6, 2>>),
                   NumberLit(TRUE, 1, <<8, 9, 0, 4>>), "Midlands"),
     SampleParkrun(5, "Manchester parkrun", NumberLit(FALSE, 53, <<4, 8, 0, 8>>),
                   NumberLit(TRUE, 2, <<2, 4, 2, 6>>), "North") >>

\* mutant: only the lower-case spellings of the columns are read
CsvParkLowerCaseOnly(row) ==
  ThemePark(Or(row["name"], Str("")),
            parseFloat(OrText(row["latitude"], row["lat"])),
            parseFloat(OrText(OrText(row["longitude"], row["lng"]), row["lon"])),
            Or(row["country"], Str("")),
            Or(row["state"], Str("")))

CsvPark(row) ==
  ThemePark(Or(Or(row["name"], row["Name"]), Str("")),
            parseFloat(OrText(OrText(row["latitude"], row["Latitude"]), row["lat"])),
            parseFloat(OrText(OrText(OrText(row["longitude"], row["Longitude"]), row["lng"]),
                              row["lon"])),
            Or(Or(row["country"], row["Country"]), Str("")),
            Or(Or(row["state"], row["State"]), Str("")))

CsvKeep(park) == Truthy(park.name) /\ ~isNaN(park.latitude) /\ ~isNaN(park.longitude)

\* results.data.map(...).filter(...)
CsvTransform(rows) == SelectSeq([i \in 1..Len(rows) |-> CsvPark(rows[i])], CsvKeep)

-----------------------------------------------------------------------------
(* The marker effects *)

ParkrunMarker(parkrun) ==
  [latitude |-> parkrun.latitude, longitude |-> parkrun.longitude, icon |-> "parkrunIcon",
   popup |-> <<parkrun.name, parkrun.region, parkrun.country, parkrun.status>>]

ThemeParkMarker(park) ==
  [latitude |-> park.latitude, longitude |-> park.longitude, icon |-> "themeParkIcon",
   popup |-> <<park.name, park.state, park.country>>]

\* mutant: the effect forgets clearLayers()
ParkrunMarkerEffectNoClear(mapCurrent, show, data, layer) ==
  IF ~mapCurrent THEN layer
  ELSE IF show THEN layer \o [i \in 1..Len(data) |-> ParkrunMarker(data[i])]
       ELSE layer

\* the effect body: nothing without a map; else clearLayers(), then one
\* addLayer per record if the flag is set
ParkrunMarkerEffect(mapCurrent, show, data, layer) ==
  IF ~mapCurrent THEN layer
  ELSE LET cleared == <<>>
       IN  IF show THEN cleared \o [i \in 1..Len(data) |-> ParkrunMarker(data[i])]
           ELSE cleared

ThemeParkMarkerEffect(mapCurrent, show, data, layer) ==
  IF ~mapCurrent THEN layer
  ELSE LET cleared == <<>>
       IN  IF show THEN cleared \o [i \in 1..Len(data) |-> ThemeParkMarker(data[i])]
           ELSE cleared

\* an effect runs after a render when one of its dependencies changed
DepsChanged(old, new) == old # new

-----------------------------------------------------------------------------
(* State *)

VARIABLES
  variant,          \* "static": the theme parks come from the literal list; "csv": they are fetched
  map,              \* map.current is not null
  showParkruns,     \* Index state
  showThemeParks,
  parkrunCount,
  themeParkCount,
  parkruns,         \* InteractiveMap state
  themeParks,
  parkrunLayer,     \* the markers of parkrunLayerGroup, in the order they were added
  themeParkLayer,
  parkrunPc,        \* where fetchParkruns is: "idle", "awaitFetch", "awaitJson", "ready", "fallback"
  themeParkPc,      \* where the theme park load is: "idle", "awaitFetch", "awaitText", "ready", "failed"
  parkrunOutcome,   \* how fetchParkruns ended ("none" until it does)
  themeParkOutcome,
  themeResponseOk,  \* response.ok of the CSV response
  parkrunNotifs,    \* the arguments of the calls of onParkrunCountChange, in order
  themeParkNotifs,  \* the arguments of the calls of onThemeParkCountChange, in order
  toasts,           \* the titles of the toasts, in order
  parkrunFetches,   \* the number of runs of the parkrun fetch effect
  themeParkLoads,   \* the number of runs of the theme park load effect
  recent,           \* the last toggles of one flag in a row, each with the markers before it
  wktInput,         \* the parser's input, result and the parks built from it
  wktResult,
  wktParks,
  eventsJson,       \* what the server holds at the two URLs, where a run fixes it
  themeparksCsv

indexVars == <<showParkruns, showThemeParks, parkrunCount, themeParkCount>>

parkrunVars == <<parkruns, parkrunPc, parkrunOutcome, parkrunNotifs, parkrunFetches>>

themeParkVars ==
  <<themeParks, themeParkPc, themeParkOutcome, themeResponseOk, themeParkNotifs, themeParkLoads>>

wktVars == <<wktInput, wktResult, wktParks>>

servedVars == <<eventsJson, themeparksCsv>>

vars ==
  <<variant, map, indexVars, parkrunVars, themeParkVars, parkrunLayer, themeParkLayer,
    toasts, recent, wktVars, servedVars>>

\* the ingestion state a position of a load stands for; a failed theme park
\* fetch has ended too, without a substitute dataset
IngestState(pc) ==
  CASE pc = "idle" -> "IDLE"
    [] pc \in {"awaitFetch", "awaitJson", "awaitText"} -> "LOADING"
    [] pc = "ready" -> "READY"
    [] pc \in {"fallback", "failed"} -> "READY_WITH_FALLBACK"

Terminal(pc) == IngestState(pc) \in {"READY", "READY_WITH_FALLBACK"}

\* the markers on the map, parkrun layer group first
Rendered == parkrunLayer \o themeParkLayer

Unparsed == [k |-> "unparsed", longitude |-> NaN, latitude |-> NaN]

InitPage ==
  /\ variant \in {"static", "csv"}
  /\ map = FALSE
  /\ showParkruns = TRUE
  /\ showThemeParks = TRUE
  /\ parkrunCount = 0
  /\ themeParkCount = 0
  /\ parkruns = <<>>
  /\ themeParks = <<>>
  /\ parkrunLayer = <<>>
  /\ themeParkLayer = <<>>
  /\ parkrunPc = "idle"
  /\ themeParkPc = "idle"
  /\ parkrunOutcome = "none"
  /\ themeParkOutcome = "none"
  /\ themeResponseOk = TRUE
  /\ parkrunNotifs = <<>>
  /\ themeParkNotifs = <<>>
  /\ toasts = <<>>
  /\ parkrunFetches = 0
  /\ themeParkLoads = 0
  /\ recent = <<>>

\* a run where the bodies of the two responses are not fixed in advance
AnyJson == [k |-> "any", ek |-> "undefined", items |-> <<>>]

AnyCsv == [k |-> "any", rows |-> <<>>]

\* what response.json() can resolve to, and what Papa.parse can hand to complete
JsonBodies == IF eventsJson.k = "any" THEN ParkrunData ELSE {eventsJson}

CsvBodies == IF themeparksCsv.k = "any" THEN CsvData ELSE {themeparksCsv.rows}

Init ==
  /\ InitPage
  /\ wktInput = <<>>
  /\ wktResult = Unparsed
  /\ wktParks = <<>>
  /\ eventsJson = AnyJson
  /\ themeparksCsv = AnyCsv

-----------------------------------------------------------------------------
(* Index: the props it hands down *)

\* mutant: the count props are inline arrow functions, new on every render
CountCallbackInline == TRUE

\* the count props are the useState setters, the same functions on every
\* render: the dependency of the two load effects never changes
CountCallbackChanged == FALSE

\* mutant: the parkrun count prop is a function that stores nothing
onParkrunCountChangeIgnored(count) ==
  [parkrunCount |-> parkrunCount, themeParkCount |-> themeParkCount]

\* onParkrunCountChange={setParkrunCount}: the two counters after the call
onParkrunCountChange(count) == [parkrunCount |-> count, themeParkCount |-> themeParkCount]

\* mutant: the theme park count prop is wired to the parkrun counter
onThemeParkCountChangeWrongSetter(count) ==
  [parkrunCount |-> count, themeParkCount |-> themeParkCount]

\* onThemeParkCountChange={setThemeParkCount}
onThemeParkCountChange(count) == [parkrunCount |-> parkrunCount, themeParkCount |-> count]

\* mutant: the button clears the flag instead of inverting it
onToggleParkrunsSetFalse(show) == FALSE

\* onToggleParkruns: setShowParkruns(!showParkruns)
onToggleParkruns(show) == ~show

\* onToggleThemeParks: setShowThemeParks(!showThemeParks)
onToggleThemeParks(show) == ~show

-----------------------------------------------------------------------------
(* A render after a state change, with the effects whose dependencies       *)
(* changed.  pcP, pcT and notifsT are the values the handler leaves; the    *)
(* flags and datasets after the handler are the primed variables.           *)

Rerender(pcP, pcT, notifsT) ==
  /\ parkrunPc' = IF CountCallbackChanged THEN "awaitFetch" ELSE pcP
  /\ parkrunFetches' = parkrunFetches + (IF CountCallbackChanged THEN 1 ELSE 0)
  /\ themeParkPc' = IF CountCallbackChanged /\ variant = "csv" THEN "awaitFetch" ELSE pcT
  /\ themeParkLoads' = themeParkLoads + (IF CountCallbackChanged THEN 1 ELSE 0)
  /\ themeParkNotifs' = IF CountCallbackChanged /\ variant = "static"
                        THEN Append(notifsT, Len(themeParks'))
                        ELSE notifsT
  /\ parkrunLayer' =
       IF DepsChanged(<<showParkruns, parkruns>>, <<showParkruns', parkruns'>>)
       THEN ParkrunMarkerEffect(map, showParkruns', parkruns', parkrunLayer)
       ELSE parkrunLayer
  /\ themeParkLayer' =
       IF DepsChanged(<<showThemeParks, themeParks>>, <<showThemeParks', themeParks'>>)
       THEN ThemeParkMarkerEffect(map, showThemeParks', themeParks', themeParkLayer)
       ELSE themeParkLayer

-----------------------------------------------------------------------------
(* Mount: the effects of the first render, in the order of the source: the  *)
(* map, the parkrun fetch, the theme park load, the two marker effects;     *)
(* the static load sets state, so a second render follows.                  *)

Mount ==
  /\ ~map
  /\ parkrunPc = "idle"
  /\ map' = TRUE
  /\ parkruns' = parkruns
  /\ IF variant = "static"
     THEN LET parks == StaticParks(themeParkData)
              counts == onThemeParkCountChange(Len(parks))
          IN  /\ themeParks' = parks
              /\ parkrunCount' = counts.parkrunCount
              /\ themeParkCount' = counts.themeParkCount
              /\ themeParkOutcome' = "ok"
              /\ UNCHANGED <<showParkruns, showThemeParks>>
              /\ parkrunLayer' = ParkrunMarkerEffect(TRUE, showParkruns, parkruns, parkrunLayer)
              /\ themeParkLayer' =
                   ThemeParkMarkerEffect(TRUE, showThemeParks, parks,
                     ThemeParkMarkerEffect(TRUE, showThemeParks, themeParks, themeParkLayer))
              /\ parkrunPc' = "awaitFetch"
              /\ parkrunFetches' = parkrunFetches + 1 + (IF CountCallbackChanged THEN 1 ELSE 0)
              /\ themeParkPc' = "ready"
              /\ themeParkLoads' = themeParkLoads + 1 + (IF CountCallbackChanged THEN 1 ELSE 0)
              /\ themeParkNotifs' =
                   IF CountCallbackChanged
                   THEN Append(Append(themeParkNotifs, Len(parks)), Len(parks))
                   ELSE Append(themeParkNotifs, Len(parks))
     ELSE /\ parkrunPc' = "awaitFetch"
          /\ parkrunFetches' = parkrunFetches + 1
          /\ themeParkPc' = "awaitFetch"
          /\ themeParkLoads' = themeParkLoads + 1
          /\ parkrunLayer' = ParkrunMarkerEffect(TRUE, showParkruns, parkruns, parkrunLayer)
          /\ themeParkLayer' = ThemeParkMarkerEffect(TRUE, showThemeParks, themeParks, themeParkLayer)
          /\ UNCHANGED <<indexVars, themeParks, themeParkOutcome, themeParkNotifs>>
  /\ recent' = <<>>
  /\ UNCHANGED <<variant, parkrunOutcome, parkrunNotifs, themeResponseOk, toasts, wktVars, servedVars>>

-----------------------------------------------------------------------------
(* fetchParkruns *)

\* mutant: the try block reports the count twice
ParkrunSuccessTwice(events) ==
  LET counts == onParkrunCountChange(Len(events))
  IN  /\ parkruns' = events
      /\ parkrunCount' = counts.parkrunCount
      /\ themeParkCount' = counts.themeParkCount
      /\ parkrunNotifs' = Append(Append(parkrunNotifs, Len(events)), Len(events))
      /\ parkrunOutcome' = "ok"
      /\ UNCHANGED <<showParkruns, showThemeParks, themeParks, toasts>>
      /\ Rerender("ready", themeParkPc, themeParkNotifs)

\* the try block ran to its end
ParkrunSuccess(events) ==
  LET counts == onParkrunCountChange(Len(events))
  IN  /\ parkruns' = events
      /\ parkrunCount' = counts.parkrunCount
      /\ themeParkCount' = counts.themeParkCount
      /\ parkrunNotifs' = Append(parkrunNotifs, Len(events))
      /\ parkrunOutcome' = "ok"
      /\ UNCHANGED <<showParkruns, showThemeParks, themeParks, toasts>>
      /\ Rerender("ready", themeParkPc, themeParkNotifs)

\* mutant: the catch block installs the list but does not report its count
ParkrunCatchNoNotify(why) ==
  /\ parkruns' = sampleParkruns
  /\ toasts' = Append(toasts, "Using sample data")
  /\ parkrunOutcome' = why
  /\ UNCHANGED <<indexVars, parkrunNotifs, themeParks>>
  /\ Rerender("fallback", themeParkPc, themeParkNotifs)

\* the catch block
ParkrunCatch(why) ==
  LET counts == onParkrunCountChange(Len(sampleParkruns))
  IN  /\ parkruns' = sampleParkruns
      /\ parkrunCount' = counts.parkrunCount
      /\ themeParkCount' = counts.themeParkCount
      /\ parkrunNotifs' = Append(parkrunNotifs, Len(sampleParkruns))
      /\ toasts' = Append(toasts, "Using sample data")
      /\ parkrunOutcome' = why
      /\ UNCHANGED <<showParkruns, showThemeParks, themeParks>>
      /\ Rerender("fallback", themeParkPc, themeParkNotifs)

\* fetch(...) rejects: a network failure
ParkrunFetchRejects ==
  /\ parkrunPc = "awaitFetch"
  /\ ParkrunCatch("networkFailure")
  /\ recent' = <<>>
  /\ UNCHANGED <<variant, map, themeParkOutcome, themeResponseOk, wktVars, servedVars>>

\* fetch(...) resolves: a response that is not ok throws
ParkrunFetchResolves ==
  /\ parkrunPc = "awaitFetch"
  /\ \E ok \in BOOLEAN :
       IF ~ok
       THEN ParkrunCatch("badStatus")
       ELSE /\ parkrunPc' = "awaitJson"
            /\ UNCHANGED <<indexVars, parkruns, parkrunOutcome, parkrunNotifs, parkrunFetches,
                           themeParks, themeParkPc, themeParkNotifs, themeParkLoads,
                           parkrunLayer, themeParkLayer, toasts>>
  /\ recent' = <<>>
  /\ UNCHANGED <<variant, map, themeParkOutcome, themeResponseOk, wktVars, servedVars>>

\* response.json() rejects: the body is not JSON
ParkrunJsonRejects ==
  /\ parkrunPc = "awaitJson"
  /\ ParkrunCatch("decodeFailure")
  /\ recent' = <<>>
  /\ UNCHANGED <<variant, map, themeParkOutcome, themeResponseOk, wktVars, servedVars>>

\* response.json() resolves
ParkrunJsonResolves ==
  /\ parkrunPc = "awaitJson"
  /\ \E data \in JsonBodies :
       LET result == ParkrunTransform(data)
       IN  IF result.threw THEN ParkrunCatch("typeError") ELSE ParkrunSuccess(result.events)
  /\ recent' = <<>>
  /\ UNCHANGED <<variant, map, themeParkOutcome, themeResponseOk, wktVars, servedVars>>

-----------------------------------------------------------------------------
(* fetchThemeParks (the CSV version) *)

\* the catch block and the error callback of Papa.parse: a toast, nothing else
ThemeParkError(why) ==
  /\ toasts' = Append(toasts, "Error loading theme parks")
  /\ themeParkOutcome' = why
  /\ themeParkPc' = "failed"
  /\ UNCHANGED <<indexVars, themeParks, themeResponseOk, themeParkNotifs, themeParkLoads,
                 parkrunVars, parkrunLayer, themeParkLayer>>

\* fetch('/themeparks.csv') rejects
ThemeParkFetchRejects ==
  /\ variant = "csv"
  /\ themeParkPc = "awaitFetch"
  /\ ThemeParkError("networkFailure")
  /\ recent' = <<>>
  /\ UNCHANGED <<variant, map, wktVars, servedVars>>

\* fetch('/themeparks.csv') resolves; response.ok is not looked at
ThemeParkFetchResolves ==
  /\ variant = "csv"
  /\ themeParkPc = "awaitFetch"
  /\ \E ok \in BOOLEAN : themeResponseOk' = ok
  /\ themeParkPc' = "awaitText"
  /\ recent' = <<>>
  /\ UNCHANGED <<variant, map, indexVars, themeParks, themeParkOutcome, themeParkNotifs,
                 themeParkLoads, parkrunVars, parkrunLayer, themeParkLayer, toasts, wktVars, servedVars>>

\* response.text() rejects
ThemeParkTextRejects ==
  /\ variant = "csv"
  /\ themeParkPc = "awaitText"
  /\ ThemeParkError("decodeFailure")
  /\ recent' = <<>>
  /\ UNCHANGED <<variant, map, wktVars, servedVars>>

\* mutant: complete hides the theme parks when the file holds none
ThemeParkParseCompleteInfersFlag ==
  /\ variant = "csv"
  /\ themeParkPc = "awaitText"
  /\ themeParkOutcome' = "ok"
  /\ recent' = <<>>
  /\ UNCHANGED <<variant, map, showParkruns, parkruns, parkrunOutcome,
                 parkrunNotifs, themeResponseOk, toasts, wktVars, servedVars>>
  /\ \E rows \in CsvBodies :
       LET parks == CsvTransform(rows)
           counts == onThemeParkCountChange(Len(parks))
       IN  /\ themeParks' = parks
           /\ showThemeParks' = (parks # <<>>)
           /\ parkrunCount' = counts.parkrunCount
           /\ themeParkCount' = counts.themeParkCount
           /\ Rerender(parkrunPc, "ready", Append(themeParkNotifs, Len(parks)))

\* response.text() resolves and Papa.parse calls complete(results)
ThemeParkParseComplete ==
  /\ variant = "csv"
  /\ themeParkPc = "awaitText"
  /\ themeParkOutcome' = "ok"
  /\ recent' = <<>>
  /\ UNCHANGED <<variant, map, showParkruns, showThemeParks, parkruns, parkrunOutcome,
                 parkrunNotifs, themeResponseOk, toasts, wktVars, servedVars>>
  /\ \E rows \in CsvBodies :
       LET parks == CsvTransform(rows)
           counts == onThemeParkCountChange(Len(parks))
       IN  /\ themeParks' = parks
           /\ parkrunCount' = counts.parkrunCount
           /\ themeParkCount' = counts.themeParkCount
           /\ Rerender(parkrunPc, "ready", Append(themeParkNotifs, Len(parks)))

\* response.text() resolves and Papa.parse calls error(error)
ThemeParkParseError ==
  /\ variant = "csv"
  /\ themeParkPc = "awaitText"
  /\ ThemeParkError("parseError")
  /\ recent' = <<>>
  /\ UNCHANGED <<variant, map, wktVars, servedVars>>

-----------------------------------------------------------------------------
(* The two buttons of MapControls.  Events are handled after the effects of *)
(* the first render have run.                                               *)

\* the toggles of one flag in a row, the last two at most
Toggled(flag) ==
  (IF recent # <<>> /\ recent[Len(recent)].flag = flag THEN <<recent[Len(recent)]>> ELSE <<>>)
  \o <<[flag |-> flag, before |-> Rendered]>>

\* mutant: the button does nothing until the parkrun fetch has ended
ToggleParkrunsWhenLoaded ==
  /\ map
  /\ Terminal(parkrunPc)
  /\ showParkruns' = onToggleParkruns(showParkruns)
  /\ recent' = Toggled("parkruns")
  /\ UNCHANGED <<variant, map, showThemeParks, parkrunCount, themeParkCount, parkruns,
                 themeParks, parkrunOutcome, themeParkOutcome, themeResponseOk,
                 parkrunNotifs, toasts, wktVars, servedVars>>
  /\ Rerender(parkrunPc, themeParkPc, themeParkNotifs)

ToggleParkruns ==
  /\ map
  /\ showParkruns' = onToggleParkruns(showParkruns)
  /\ recent' = Toggled("parkruns")
  /\ UNCHANGED <<variant, map, showThemeParks, parkrunCount, themeParkCount, parkruns,
                 themeParks, parkrunOutcome, themeParkOutcome, themeResponseOk,
                 parkrunNotifs, toasts, wktVars, servedVars>>
  /\ Rerender(parkrunPc, themeParkPc, themeParkNotifs)

ToggleThemeParks ==
  /\ map
  /\ showThemeParks' = onToggleThemeParks(showThemeParks)
  /\ recent' = Toggled("themeParks")
  /\ UNCHANGED <<variant, map, showParkruns, parkrunCount, themeParkCount, parkruns,
                 themeParks, parkrunOutcome, themeParkOutcome, themeResponseOk,
                 parkrunNotifs, toasts, wktVars, servedVars>>
  /\ Rerender(parkrunPc, themeParkPc, themeParkNotifs)

Next ==
  \/ Mount
  \/ ParkrunFetchRejects
  \/ ParkrunFetchResolves
  \/ ParkrunJsonRejects
  \/ ParkrunJsonResolves
  \/ ThemeParkFetchRejects
  \/ ThemeParkFetchResolves
  \/ ThemeParkTextRejects
  \/ ThemeParkParseComplete
  \/ ThemeParkParseError
  \/ ToggleParkruns
  \/ ToggleThemeParks

Spec == Init /\ [][Next]_vars

\* the continuations of the two async functions: each runs once the promise
\* it awaits is settled
ParkrunFetchSettles == ParkrunFetchRejects \/ ParkrunFetchResolves

ParkrunJsonSettles == ParkrunJsonRejects \/ ParkrunJsonResolves

ThemeParkFetchSettles == ThemeParkFetchRejects \/ ThemeParkFetchResolves

ThemeParkTextSettles == ThemeParkTextRejects \/ ThemeParkParseComplete \/ ThemeParkParseError


-----------------------------------------------------------------------------
(* The WKT parser on its own: the input is drawn from texts built of an     *)
(* opening, up to MaxTokens tokens joined by single spaces, and a closing.  *)

MaxTokens == 3

\* tokens with the numbers they denote
NumericTokens ==
  { [s |-> <<"1", "0">>, v |-> Finite(FALSE, 10, <<>>)],
    [s |-> <<"2", "0">>, v |-> Finite(FALSE, 20, <<>>)],
    [s |-> <<"-", "1", ".", "5">>, v |-> Finite(TRUE, 1, <<5>>)] }

OtherTokens == { <<"x">>, <<"1", "x">> }

WktTokens == {t.s : t \in NumericTokens} \cup OtherTokens

WktOpens == { PointOpen, <<"P", "O", "I", "N", "T", "(">>, <<"P", "O", "I", "N", "T", " ">>,
              <<"(">>, <<"p", "o", "i", "n", "t", " ", "(">> }

WktCloses == { <<")">>, <<>> }

RECURSIVE JoinSpaces(_)
JoinSpaces(tokens) ==
  IF tokens = <<>> THEN <<>>
  ELSE IF Len(tokens) = 1 THEN tokens[1]
  ELSE tokens[1] \o <<" ">> \o JoinSpaces(Tail(tokens))

WktInputs ==
  { open \o JoinSpaces(tokens) \o close :
      open \in WktOpens, tokens \in SeqUpTo(WktTokens, MaxTokens), close \in WktCloses }

\* "POINT (x y)"
WellFormed(x, y) == PointOpen \o x.s \o <<" ">> \o y.s \o <<")">>

InitWKT ==
  /\ InitPage
  /\ variant = "static"
  /\ wktInput \in WktInputs
  /\ wktResult = Unparsed
  /\ wktParks = <<>>
  /\ eventsJson = AnyJson
  /\ themeparksCsv = AnyCsv

\* one item of the list goes through parseWKT and the transform
ParseItem ==
  /\ wktResult = Unparsed
  /\ wktResult' = parseWKT(wktInput)
  /\ wktParks' = StaticParks(<<[wkt |-> wktInput, name |-> "Some Park"]>>)
  /\ UNCHANGED <<variant, map, indexVars, parkrunVars, themeParkVars, parkrunLayer,
                 themeParkLayer, toasts, recent, wktInput, servedVars>>

NextWKT == ParseItem

SpecWKT == InitWKT /\ [][NextWKT]_vars

-----------------------------------------------------------------------------
(* The two loads against bodies fixed before the page opens: both servers   *)
(* answer, and what a load makes of a body can be compared with the body.   *)
(* One of the two bodies varies, the other is empty.                        *)

NoEvents == [k |-> "object", ek |-> "array", items |-> <<>>]

CsvFile(rows) == [k |-> "rows", rows |-> rows]

InitServed ==
  /\ InitPage
  /\ variant = "csv"
  /\ wktInput = <<>>
  /\ wktResult = Unparsed
  /\ wktParks = <<>>
  /\ \/ eventsJson \in ParkrunData /\ themeparksCsv = CsvFile(<<>>)
     \/ eventsJson = NoEvents /\ themeparksCsv \in {CsvFile(rows) : rows \in CsvData}

NextServed ==
  \/ Mount
  \/ ParkrunFetchResolves
  \/ ParkrunJsonResolves
  \/ ThemeParkFetchResolves
  \/ ThemeParkParseComplete

SpecServed == InitServed /\ [][NextServed]_vars

-----------------------------------------------------------------------------
(* The page with clicks, failures and fairness: every promise a fetch       *)
(* awaits is settled at some time, and the event loop then runs its         *)
(* continuation.  The bodies are fixed before the page opens: a feed that   *)
(* is null or holds no event, a CSV file of one row at most.                *)

InitLive ==
  /\ InitPage
  /\ wktInput = <<>>
  /\ wktResult = Unparsed
  /\ wktParks = <<>>
  /\ eventsJson \in {[k |-> "null", ek |-> "undefined", items |-> <<>>], NoEvents}
  /\ themeparksCsv \in {CsvFile(rows) : rows \in SeqUpTo(RowInputs, 1)}

SpecLive ==
  /\ InitLive
  /\ [][Next]_vars
  /\ WF_vars(ParkrunFetchSettles)
  /\ WF_vars(ParkrunJsonSettles)
  /\ WF_vars(ThemeParkFetchSettles)
  /\ WF_vars(ThemeParkTextSettles)

-----------------------------------------------------------------------------
(* Claims *)

ParkrunState == IngestState(parkrunPc)

ThemeParkState == IngestState(themeParkPc)

\* a step of an ingestion state machine that the design allows; the static
\* theme park load is synchronous and goes from IDLE through LOADING to READY
\* within the one effect
AllowedStep(from, to) ==
  \/ to = from
  \/ from = "IDLE" /\ to = "LOADING"
  \/ from = "LOADING" /\ to \in {"READY", "READY_WITH_FALLBACK"}
  \/ from = "IDLE" /\ to = "READY" /\ variant = "static"

\* C1: each ingestion only moves IDLE -> LOADING -> READY or
\* READY_WITH_FALLBACK; a terminal state never changes again, LOADING is never
\* re-entered, and each dataset is loaded exactly once, whatever toggles,
\* renders and fetch completions happen.
C1_FetchedOnce ==
  [][ /\ AllowedStep(ParkrunState, ParkrunState')
      /\ AllowedStep(ThemeParkState, ThemeParkState')
      /\ (Terminal(parkrunPc) => parkrunPc' = parkrunPc)
      /\ (Terminal(themeParkPc) => themeParkPc' = themeParkPc)
      /\ parkrunFetches' = (IF ParkrunState' = "IDLE" THEN 0 ELSE 1)
      /\ themeParkLoads' = (IF ThemeParkState' = "IDLE" THEN 0 ELSE 1) ]_vars

C1_Witness ==
  /\ parkrunPc = "fallback"
  /\ themeParkPc = "ready"
  /\ variant = "csv"
  /\ Len(recent) = 2
  /\ parkrunFetches = 1
  /\ themeParkLoads = 1

ParkrunFailures == {"networkFailure", "badStatus", "decodeFailure", "typeError"}

FallbackNames ==
  << "Bushy Park parkrun", "Wimbledon Common parkrun", "Hampstead Heath parkrun",
     "Birmingham parkrun", "Manchester parkrun" >>

\* C2: when the running-events fetch ends in a network failure, a response
\* that is not ok, or an exception while the body is decoded, the dataset is
\* the built-in list of 5 points in its order, the count notification and the
\* counter are 5, and a toast was issued.
C2_FallbackOnFailure ==
  parkrunOutcome \in ParkrunFailures =>
    /\ Len(parkruns) = 5
    /\ \A i \in 1..5 : parkruns[i].id = i /\ parkruns[i].name = Str(FallbackNames[i])
    /\ \A i \in 1..5 : parkruns[i].latitude.int \in 51..53 /\ parkruns[i].longitude.neg
    /\ parkrunNotifs = <<5>>
    /\ parkrunCount = 5
    /\ toasts # <<>>
    /\ \E i \in 1..Len(toasts) : toasts[i] = "Using sample data"

C2_Witness ==
  /\ parkrunOutcome = "badStatus"
  /\ parkrunPc = "fallback"
  /\ Len(parkruns) = 5

ParkrunEnds == ~Terminal(parkrunPc) /\ Terminal(parkrunPc')

ThemeParkEnds == ~Terminal(themeParkPc) /\ Terminal(themeParkPc')

\* C3 as stated: every step into a terminal state of either ingestion comes
\* with exactly one count notification carrying the resulting record count,
\* on the success path and on every failure path.
C3_Original ==
  [][ /\ (ParkrunEnds => parkrunNotifs' = Append(parkrunNotifs, Len(parkruns')))
      /\ (ThemeParkEnds => themeParkNotifs' = Append(themeParkNotifs, Len(themeParks'))) ]_vars

\* C3 amended: a step into a terminal state that installs a dataset (READY of
\* either ingestion, READY_WITH_FALLBACK of the running events) comes with
\* exactly one count notification carrying the resulting record count; a
\* failed theme park fetch installs nothing and notifies nothing; no other
\* step notifies.
C3_NotifiedOnce ==
  [][ /\ (ParkrunEnds => parkrunNotifs' = Append(parkrunNotifs, Len(parkruns')))
      /\ (~ParkrunEnds => parkrunNotifs' = parkrunNotifs)
      /\ (ThemeParkEnds /\ themeParkPc' = "ready" =>
            themeParkNotifs' = Append(themeParkNotifs, Len(themeParks')))
      /\ (ThemeParkEnds /\ themeParkPc' = "failed" =>
            themeParkNotifs' = themeParkNotifs /\ themeParks' = themeParks)
      /\ (~ThemeParkEnds => themeParkNotifs' = themeParkNotifs) ]_vars

C3_Witness ==
  /\ parkrunPc = "ready"
  /\ parkrunNotifs = <<Len(parkruns)>>
  /\ Len(parkruns) = 2
  /\ themeParkPc = "failed"
  /\ themeParkNotifs = <<>>

\* C4: the two ingestions are independent: a step of one fetch leaves the
\* other's dataset, count, notifications, position and layer alone, in every
\* interleaving; a dataset and its count, once final, are never changed by a
\* later step of the other ingestion, and the count is the dataset's length.
C4_Independent ==
  [][ /\ (map /\ parkrunPc' # parkrunPc =>
            UNCHANGED <<themeParks, themeParkCount, themeParkNotifs, themeParkPc,
                        themeParkOutcome, themeParkLayer>>)
      /\ (map /\ themeParkPc' # themeParkPc =>
            UNCHANGED <<parkruns, parkrunCount, parkrunNotifs, parkrunPc,
                        parkrunOutcome, parkrunLayer>>)
      /\ (Terminal(parkrunPc) => UNCHANGED <<parkruns, parkrunCount>>)
      /\ (Terminal(themeParkPc) => UNCHANGED <<themeParks, themeParkCount>>)
      /\ (Terminal(parkrunPc') => parkrunCount' = Len(parkruns'))
      /\ (Terminal(themeParkPc') => themeParkCount' = Len(themeParks')) ]_vars

C4_Witness ==
  /\ parkrunPc = "ready"
  /\ Len(parkruns) = 1
  /\ parkrunCount = 1
  /\ themeParkPc = "ready"
  /\ Len(themeParks) = 2
  /\ themeParkCount = 2

Records == {parkruns[i] : i \in 1..Len(parkruns)} \cup {themeParks[i] : i \in 1..Len(themeParks)}

Markers == {Rendered[i] : i \in 1..Len(Rendered)}

\* |n| <= limit, for a number n that is not NaN
Within(n, limit) ==
  /\ n.k = "finite"
  /\ \/ n.int < limit
     \/ n.int = limit /\ n.frac = <<>>

\* C5 as stated: every record of either dataset, and so every marker, has a
\* numeric latitude in [-90, 90] and a numeric longitude in [-180, 180].
C5_Original ==
  /\ \A r \in Records : Within(r.latitude, 90) /\ Within(r.longitude, 180)
  /\ \A m \in Markers : Within(m.latitude, 90) /\ Within(m.longitude, 180)

\* C5 amended: every record of either dataset, and so every marker and every
\* counted record, has a latitude and a longitude that are numbers (not NaN);
\* a source record with a coordinate that does not parse as a number is left
\* out of the dataset, the markers and the count.  Coordinates out of range
\* are kept.
C5_NumericCoordinates ==
  /\ \A r \in Records : ~isNaN(r.latitude) /\ ~isNaN(r.longitude)
  /\ \A m \in Markers : ~isNaN(m.latitude) /\ ~isNaN(m.longitude)
  /\ (parkrunOutcome = "ok" => parkrunCount = Len(parkruns))
  /\ (themeParkOutcome = "ok" => themeParkCount = Len(themeParks))

\* a CSV row with a name, latitude 91 and longitude -181 was kept, rendered
\* and counted
C5_Witness ==
  /\ themeParkOutcome = "ok"
  /\ Len(themeParks) = 1
  /\ themeParkCount = 1
  /\ Truthy(themeParks[1].name)
  /\ ~Within(themeParks[1].latitude, 90)
  /\ ~Within(themeParks[1].longitude, 180)
  /\ Len(themeParkLayer) = 1

\* C6: every record of either dataset has a non-empty display name; a feed
\* entry or an attraction record without a name is left out.
C6_NamedRecords == \A r \in Records : Truthy(r.name)

Parsed == wktResult # Unparsed

\* the texts of the form "POINT (x y)" with x and y numeric tokens
WellFormedInputs == {WellFormed(x, y) : x \in NumericTokens, y \in NumericTokens}

\* C7: for every malformed WKT text (missing parenthesis, a token that is not
\* a number, a wrong number of tokens) the parser returns null, and no theme
\* park is built from it.
C7_MalformedIsNull ==
  Parsed /\ wktInput \notin WellFormedInputs => wktResult = NullCoords /\ wktParks = <<>>

\* C8: for every text "POINT (x y)" with numbers x and y the parser returns
\* longitude x (the first token) and latitude y (the second token).
C8_LongitudeFirst ==
  \A x \in NumericTokens, y \in NumericTokens :
    Parsed /\ wktInput = WellFormed(x, y) =>
      wktResult = [k |-> "coords", longitude |-> x.v, latitude |-> y.v]

\* "POINT (10 20)"
C8_Witness ==
  /\ wktInput = <<"P", "O", "I", "N", "T", " ", "(", "1", "0", " ", "2", "0", ")">>
  /\ wktResult.k = "coords"
  /\ wktResult.longitude.int = 10
  /\ wktResult.latitude.int = 20

\* C9: once the map exists, the markers on the map are the running events in
\* dataset order if their flag is set, followed by the theme parks in dataset
\* order if their flag is set, one marker per record; with both flags off
\* there is no marker.
C9_VisibleMarkers ==
  map =>
    /\ Rendered =
         (IF showParkruns THEN [i \in 1..Len(parkruns) |-> ParkrunMarker(parkruns[i])] ELSE <<>>)
         \o (IF showThemeParks THEN [i \in 1..Len(themeParks) |-> ThemeParkMarker(themeParks[i])]
             ELSE <<>>)
    /\ (~showParkruns /\ ~showThemeParks => Rendered = <<>>)

C9_Witness ==
  /\ map
  /\ ~showParkruns
  /\ ~showThemeParks
  /\ parkruns # <<>>
  /\ themeParks # <<>>
  /\ Rendered = <<>>

\* C10: two toggles of the same flag in a row, the datasets unchanged, bring
\* the markers on the map back to what they were before the first of the two.
C10_ToggleTwice == Len(recent) = 2 => Rendered = recent[1].before

C10_Witness ==
  /\ Len(recent) = 2
  /\ recent[1].flag = "parkruns"
  /\ ~showThemeParks
  /\ Rendered # <<>>
  /\ recent[2].before = <<>>

\* the ways the CSV load can fail that the handlers of fetchThemeParks see
ThemeParkFailures == {"networkFailure", "decodeFailure", "parseError"}

ErrorNotice == "Error loading theme parks"

\* C11: when the fetched theme park load has ended after a transport failure
\* (fetch rejected, or a response whose status is not a success) or a decode
\* failure, the error toast has been issued, no dataset was installed and
\* the theme park dataset and layer are empty.
C11_FailureNoticed ==
  variant = "csv" /\ Terminal(themeParkPc)
    /\ (themeParkOutcome \in ThemeParkFailures \/ ~themeResponseOk)
  => /\ themeParkPc = "failed"
     /\ \E i \in 1..Len(toasts) : toasts[i] = ErrorNotice
     /\ themeParks = <<>>
     /\ themeParkLayer = <<>>
     /\ themeParkCount = 0

\* a source record that passes validation: a name that is not empty and two
\* coordinates that are numbers
ValidEntry(entry) ==
  LET event == ParkrunEvent(entry)
  IN  Truthy(event.name) /\ ~isNaN(event.latitude) /\ ~isNaN(event.longitude)

ValidRow(row) ==
  LET park == CsvPark(row)
  IN  Truthy(park.name) /\ ~isNaN(park.latitude) /\ ~isNaN(park.longitude)

Replace(seq, i, v) == [seq EXCEPT ![i] = v]

\* C12: the dataset a load installs is the valid records of the body, in the
\* order of the body, and nothing else; the count is their number, and with
\* any one invalid record replaced by a valid one the count is one more.
C12_DropsOnlyInvalid ==
  /\ parkrunPc = "ready" /\ eventsJson.ek = "array" =>
       LET items == eventsJson.items
           valid == SelectSeq(items, ValidEntry)
       IN  /\ parkruns = [i \in 1..Len(valid) |-> ParkrunEvent(valid[i])]
           /\ parkrunCount = Len(valid)
           /\ \A i \in 1..Len(items) : \A v \in EventInputs :
                ~ValidEntry(items[i]) /\ ValidEntry(v) =>
                  LET other == [eventsJson EXCEPT !.items = Replace(items, i, v)]
                  IN  Len(ParkrunTransform(other).events) = parkrunCount + 1
  /\ themeParkPc = "ready" =>
       LET rows == themeparksCsv.rows
           valid == SelectSeq(rows, ValidRow)
       IN  /\ themeParks = [i \in 1..Len(valid) |-> CsvPark(valid[i])]
           /\ themeParkCount = Len(valid)
           /\ \A i \in 1..Len(rows) : \A v \in RowInputs :
                ~ValidRow(rows[i]) /\ ValidRow(v) =>
                  Len(CsvTransform(Replace(rows, i, v))) = themeParkCount + 1

\* a body with an events array none of whose entries has two numeric
\* coordinates: the array is empty, or every entry is dropped
ZeroValid(data) ==
  /\ data.k = "object"
  /\ data.ek = "array"
  /\ \A i \in 1..Len(data.items) :
       /\ ~data.items[i].null
       /\ isNaN(parseFloat(data.items[i].latitude)) \/ isNaN(parseFloat(data.items[i].longitude))

FallbackNotice == "Using sample data"

\* C13: when the feed answered with a success status and a body without a
\* record that survives, the running events end in READY with an empty
\* dataset, one count notification of 0, no sample list and no toast.
C13_EmptyIsReady ==
  Terminal(parkrunPc) /\ parkrunOutcome # "badStatus" /\ ZeroValid(eventsJson)
  => /\ ParkrunState = "READY"
     /\ parkruns = <<>>
     /\ parkrunLayer = <<>>
     /\ parkrunNotifs = <<0>>
     /\ parkrunCount = 0
     /\ \A i \in 1..Len(toasts) : toasts[i] # FallbackNotice

C13_Witness ==
  /\ parkrunPc = "ready"
  /\ Len(eventsJson.items) = 1
  /\ eventsJson.items[1].latitude = Text(<<"b", "a", "d">>)
  /\ parkrunNotifs = <<0>>

\* the lower-case form of a column name
LowerCase(c) ==
  CASE c \in {"name", "Name", "NAME"} -> "name"
    [] c \in {"latitude", "Latitude", "LATITUDE"} -> "latitude"
    [] c \in {"longitude", "Longitude", "LONGITUDE"} -> "longitude"
    [] c \in {"country", "Country"} -> "country"
    [] c \in {"state", "State"} -> "state"
    [] OTHER -> c

\* the value of the first alias that some column of the row spells, in any
\* case, with a value; none is the value when no column does
RECURSIVE AnyCase(_, _, _)
AnyCase(row, aliases, none) ==
  IF aliases = <<>> THEN none
  ELSE LET columns == {c \in ColumnNames : LowerCase(c) = Head(aliases) /\ row[c].t = "string"}
       IN  IF columns # {} THEN row[CHOOSE c \in columns : TRUE]
           ELSE AnyCase(row, Tail(aliases), none)

\* the value of the first of the columns, spelled exactly so, that is not
\* empty; none when there is no such column
RECURSIVE ExactName(_, _, _)
ExactName(row, columns, none) ==
  IF columns = <<>> THEN none
  ELSE IF row[Head(columns)].t = "string" /\ row[Head(columns)].s # "" THEN row[Head(columns)]
  ELSE ExactName(row, Tail(columns), none)

RECURSIVE ExactText(_, _, _)
ExactText(row, columns, none) ==
  IF columns = <<>> THEN none
  ELSE IF row[Head(columns)].t = "string" /\ row[Head(columns)].s # <<>> THEN row[Head(columns)]
  ELSE ExactText(row, Tail(columns), none)

\* the record of a row whose fields were read as name, latitude, longitude,
\* country and state; no record without a name or without two numbers
Candidate(name, latitude, longitude, country, state) ==
  IF name.t = "string" /\ name.s # "" /\ parseFloat(latitude).k # "NaN"
     /\ parseFloat(longitude).k # "NaN"
  THEN <<ThemePark(name, parseFloat(latitude), parseFloat(longitude),
                   IF country.t = "string" THEN country ELSE Str(""),
                   IF state.t = "string" THEN state ELSE Str(""))>>
  ELSE <<>>

ReadAnyCase(row) ==
  Candidate(AnyCase(row, <<"name">>, UndefinedName),
            AnyCase(row, <<"latitude", "lat">>, UndefinedText),
            AnyCase(row, <<"longitude", "lng", "lon">>, UndefinedText),
            AnyCase(row, <<"country">>, UndefinedName),
            AnyCase(row, <<"state">>, UndefinedName))

ReadExact(row) ==
  Candidate(ExactName(row, <<"name", "Name">>, UndefinedName),
            ExactText(row, <<"latitude", "Latitude", "lat">>, UndefinedText),
            ExactText(row, <<"longitude", "Longitude", "lng", "lon">>, UndefinedText),
            ExactName(row, <<"country", "Country">>, UndefinedName),
            ExactName(row, <<"state", "State">>, UndefinedName))

RECURSIVE Flatten(_)
Flatten(seqs) == IF seqs = <<>> THEN <<>> ELSE Head(seqs) \o Flatten(Tail(seqs))

\* C14 as stated: the dataset of the CSV load holds, for every row in order,
\* the record read by matching the column names against the aliases in any
\* case, and nothing for a row without name, latitude or longitude or with
\* a coordinate that is not a number.
C14_Original ==
  themeParkPc = "ready" =>
    LET rows == themeparksCsv.rows
    IN  themeParks = Flatten([i \in 1..Len(rows) |-> ReadAnyCase(rows[i])])

\* C14: the dataset of the CSV load holds, for every row in order, the
\* record read from the columns spelled exactly name, Name; latitude,
\* Latitude, lat; longitude, Longitude, lng, lon; country, Country; state,
\* State, the first of them with a value that is not empty; and nothing for
\* a row without name, latitude or longitude under these spellings or with
\* a coordinate that is not a number.
C14_ExactAliases ==
  themeParkPc = "ready" =>
    LET rows == themeparksCsv.rows
    IN  themeParks = Flatten([i \in 1..Len(rows) |-> ReadExact(rows[i])])

C14_Witness ==
  /\ themeParkPc = "ready"
  /\ Len(themeparksCsv.rows) = 2
  /\ themeparksCsv.rows[1]["NAME"] = Str("Up")
  /\ themeparksCsv.rows[2]["Name"] = Str("X Park")
  /\ themeParks = <<ThemePark(Str("X Park"), Finite(FALSE, 10, <<5>>), Finite(TRUE, 20, <<2, 5>>),
                              Str("Z"), Str(""))>>

\* what the ingestions write: positions, datasets, counts, notifications, toasts
ingestVars == <<parkrunVars, themeParkVars, parkrunCount, themeParkCount, toasts>>

\* the step is a click on the button of the flag
Clicked(flag) == recent' # <<>> /\ recent'[Len(recent')].flag = flag

\* C15: a step that changes a visibility flag is a click on the button of
\* that flag and leaves the other flag alone; a step of an ingestion (a
\* fetch starting, succeeding or failing, the sample list, a count
\* notification) changes neither flag.
C15_FlagsOwnToggle ==
  [][ /\ (showParkruns' # showParkruns => Clicked("parkruns") /\ showThemeParks' = showThemeParks)
      /\ (showThemeParks' # showThemeParks => Clicked("themeParks") /\ showParkruns' = showParkruns)
      /\ (ingestVars' # ingestVars => showParkruns' = showParkruns /\ showThemeParks' = showThemeParks)
    ]_vars

C15_Witness ==
  /\ ~showParkruns
  /\ showThemeParks
  /\ parkrunPc = "fallback"
  /\ themeParkPc = "failed"
  /\ recent = <<>>

\* C16: while a fetch is outstanding both buttons work and each layer shows
\* the records its dataset holds at that time, none for the dataset still
\* loading; a click never ends a load, so a dataset whose fetch is never
\* settled stays in LOADING with an empty layer; and once the promises of a
\* fetch are settled, with success or failure, its dataset reaches a
\* terminal state.
C16_Responsive ==
  /\ [](ParkrunState = "LOADING" \/ ThemeParkState = "LOADING" =>
          /\ ENABLED ToggleParkruns
          /\ ENABLED ToggleThemeParks
          /\ parkrunLayer = (IF showParkruns
                             THEN [i \in 1..Len(parkruns) |-> ParkrunMarker(parkruns[i])]
                             ELSE <<>>)
          /\ themeParkLayer = (IF showThemeParks
                               THEN [i \in 1..Len(themeParks) |-> ThemeParkMarker(themeParks[i])]
                               ELSE <<>>))
  /\ [](ParkrunState = "LOADING" => parkruns = <<>> /\ parkrunLayer = <<>>)
  /\ [](ThemeParkState = "LOADING" => themeParks = <<>> /\ themeParkLayer = <<>>)
  /\ [][ /\ (ParkrunState = "LOADING" /\ ParkrunState' # "LOADING"
               => ParkrunFetchSettles \/ ParkrunJsonSettles)
         /\ (ThemeParkState = "LOADING" /\ ThemeParkState' # "LOADING"
               => ThemeParkFetchSettles \/ ThemeParkTextSettles)
       ]_vars
  /\ (ParkrunState = "LOADING" ~> Terminal(parkrunPc))
  /\ (ThemeParkState = "LOADING" ~> Terminal(themeParkPc))

C16_Witness ==
  /\ parkrunPc = "awaitJson"
  /\ themeParkPc = "awaitText"
  /\ ~showParkruns
  /\ showThemeParks
  /\ Len(recent) = 2
  /\ recent[2].flag = "themeParks"
  /\ Rendered = <<>>

\* a record of a dataset taken as a raw record of its source: every field
\* as it is, the numbers as parseFloat reads them
ParkrunAsEntry(parkrun) ==
  [null |-> FALSE, id |-> parkrun.id, name |-> parkrun.name,
   latitude |-> Text(NumberToText(parkrun.latitude)),
   longitude |-> Text(NumberToText(parkrun.longitude)),
   country |-> parkrun.country, region |-> parkrun.region, status |-> parkrun.status]

ThemeParkAsRow(park) ==
  Row([name |-> park.name,
       latitude |-> Text(NumberToText(park.latitude)),
       longitude |-> Text(NumberToText(park.longitude)),
       country |-> park.country, state |-> park.state])

ParkrunsAgain ==
  ParkrunTransform([k |-> "object", ek |-> "array",
                    items |-> [i \in 1..Len(parkruns) |-> ParkrunAsEntry(parkruns[i])]])

ThemeParksAgain == CsvTransform([i \in 1..Len(themeParks) |-> ThemeParkAsRow(themeParks[i])])

C18_CountIsLength ==
  /\ [](parkrunCount = Len(parkruns) /\ themeParkCount = Len(themeParks))
  /\ [](ParkrunState \in {"IDLE", "LOADING"} => parkrunCount = 0 /\ parkruns = <<>>)
  /\ [](ThemeParkState \in {"IDLE", "LOADING"} \/ themeParkPc = "failed"
          => themeParkCount = 0 /\ themeParks = <<>>)
  /\ [][ showParkruns' # showParkruns \/ showThemeParks' # showThemeParks
           => UNCHANGED <<parkrunCount, themeParkCount, parkruns, themeParks>> ]_vars

C18_Witness ==
  /\ ~showParkruns
  /\ recent # <<>>
  /\ Len(parkruns) = 2
  /\ parkrunCount = 2
  /\ themeParkPc = "failed"
  /\ themeParkCount = 0

=============================================================================
